---------------------------- MODULE Spec2Model ----------------------------
(***************************************************************************)
(* Model of the audio analysis pipeline of practice-buddy                  *)
(* (src/audio_processing.py): the beat filter of detect_metronome and the  *)
(* note segmentation of segment_notes.                                     *)
(*                                                                         *)
(* Time.  Every time of the program is a float number of seconds.  The     *)
(* model keeps times as integers, in ticks of 1 / (sr * TicksPerSample)    *)
(* second, so that frame times, histogram bin edges, bin centres and the   *)
(* 15% tolerance are all exact integers.  The model therefore computes in  *)
(* exact arithmetic what the program computes in float64.                  *)
(*                                                                         *)
(* Signal processing (filtering, onset strength, peak picking, YIN) is     *)
(* librosa/scipy code outside the repository: its outputs (the onset       *)
(* frames, the per-frame rounded pitch) are the inputs the model draws     *)
(* from bounded sets.                                                      *)
(***************************************************************************)
EXTENDS Integers, Sequences, FiniteSets, TLC

VARIABLES
    \* detect_metronome
    beat_pc,            \* position in detect_metronome
    onset_frames,       \* onset_frames (librosa.onset.onset_detect output)
    onset_times,        \* onset_times
    dominant_interval,  \* dominant_interval
    tolerance,          \* tolerance
    expected_next,      \* expected_next
    filtered_times,     \* filtered_times
    beat_i,             \* index of the loop over onset_times[1:] (1-based)
    metronome_result,   \* the dict detect_metronome returns
    \* segment_notes
    seg_pc,             \* position in segment_notes
    df,                 \* the DataFrame: frame index 0..n-1 -> row
    note_onset_frames,  \* onset_frames of segment_notes
    notes,              \* notes (list of dicts)
    current_note_start, \* current_note_start
    seg_i,              \* loop variable i of segment_notes
    segment_result,     \* the dict segment_notes returns
    \* extract_pitch
    pitch_pc,           \* position in extract_pitch
    f0,                 \* f0 (librosa.yin output), frame index 0..n-1 -> value
    f0_clean,           \* f0_clean
    pitch_result,       \* the dict extract_pitch returns
    \* identify_notes
    id_pc,              \* position in identify_notes
    id_df,              \* the DataFrame df: frame index 0..n-1 -> row
    identify_result,    \* the dict identify_notes returns
    \* the note_name column on its own
    name_pc,            \* position in the df['midi_rounded'].apply(...) call
    midi_column,        \* df['midi_rounded']
    name_column,        \* df['note_name']
    \* the pipeline driver
    driver,             \* which handler runs: "analysis" (handlers/analysis.py) or "bot" (bot.py)
    drv_pc,             \* position of the driver in the pipeline
    results,            \* the driver's local variables result, metronome_result, ...
    invoked,            \* the calls made so far, in order
    exception,          \* the exception that left the pipeline, if any
    sent,               \* what was sent to the user after the stages
    \* the onset markers of segment_notes on their own
    mark_pc,            \* position in the marking loop (lines 272-277)
    mark_df,            \* the DataFrame: frame index 0..n-1 -> [time_s, is_onset]
    mark_onset_times,   \* onset_times
    mark_k,             \* index of the loop over onset_times (1-based)
    mark_result,        \* num_onsets and the marked DataFrame, as returned
    \* the chat front end of bot.py
    conv_state,         \* the state of the user's conversation in conv_handler
    user_data,          \* context.user_data of the user
    last_update,        \* the last update, the handlers that ran on it and what they used
    cancel_seen,        \* a cancel ran since the instrument was last asked for
    \* handle_voice of handlers/analysis.py
    hv_pc,              \* position in handle_voice
    hv_user_data,       \* context.user_data
    hv_context,         \* the instrument and piece name read at the start
    hv_outcome,         \* how analyze_audio ended
    hv_exception,       \* the exception in flight, where it was raised, whether it left handle_voice
    hv_sent,            \* the replies handle_voice itself sent
    \* two analysis requests side by side
    req_pc,             \* position of each request in handle_voice / analyze_audio
    req_filepath,       \* the filepath each request built from its timestamp
    req_loaded,         \* the request whose recording each request loaded
    clock,              \* datetime.now(), in whole seconds
    accesses,           \* the file accesses so far: request, path, mode
    file_content,       \* for each written path, the request whose data it holds
    interleaved         \* a request took a step while the other was in progress

beat_vars == <<beat_pc, onset_frames, onset_times, dominant_interval, tolerance,
               expected_next, filtered_times, beat_i, metronome_result>>
seg_vars == <<seg_pc, df, note_onset_frames, notes, current_note_start, seg_i,
              segment_result>>
pitch_vars == <<pitch_pc, f0, f0_clean, pitch_result>>
id_vars == <<id_pc, id_df, identify_result>>
name_vars == <<name_pc, midi_column, name_column>>
drv_vars == <<driver, drv_pc, results, invoked, exception, sent>>
mark_vars == <<mark_pc, mark_df, mark_onset_times, mark_k, mark_result>>
bot_vars == <<conv_state, user_data, last_update, cancel_seen>>
voice_vars == <<hv_pc, hv_user_data, hv_context, hv_outcome, hv_exception, hv_sent>>
req_vars == <<req_pc, req_filepath, req_loaded, clock, accesses, file_content, interleaved>>
vars == <<beat_vars, seg_vars, pitch_vars, id_vars, name_vars, drv_vars, mark_vars, bot_vars, voice_vars, req_vars>>

\* What each stage leaves alone: the variables of the other stages.
not_beat_vars == <<seg_vars, pitch_vars, id_vars, name_vars, drv_vars, mark_vars, bot_vars, voice_vars, req_vars>>
not_seg_vars == <<beat_vars, pitch_vars, id_vars, name_vars, drv_vars, mark_vars, bot_vars, voice_vars, req_vars>>
not_pitch_vars == <<beat_vars, seg_vars, id_vars, name_vars, drv_vars, mark_vars, bot_vars, voice_vars, req_vars>>
not_id_vars == <<beat_vars, seg_vars, pitch_vars, name_vars, drv_vars, mark_vars, bot_vars, voice_vars, req_vars>>
not_name_vars == <<beat_vars, seg_vars, pitch_vars, id_vars, drv_vars, mark_vars, bot_vars, voice_vars, req_vars>>
not_drv_vars == <<beat_vars, seg_vars, pitch_vars, id_vars, name_vars, mark_vars, bot_vars, voice_vars, req_vars>>
not_mark_vars == <<beat_vars, seg_vars, pitch_vars, id_vars, name_vars, drv_vars, bot_vars, voice_vars, req_vars>>
not_bot_vars == <<beat_vars, seg_vars, pitch_vars, id_vars, name_vars, drv_vars, mark_vars, voice_vars, req_vars>>
not_voice_vars == <<beat_vars, seg_vars, pitch_vars, id_vars, name_vars, drv_vars, mark_vars, bot_vars, req_vars>>
not_req_vars == <<beat_vars, seg_vars, pitch_vars, id_vars, name_vars, drv_vars, mark_vars, bot_vars, voice_vars>>

-----------------------------------------------------------------------------
(* Bounds of the model *)

\* Onset frames of the metronome pass lie in 0..MaxFrame.
MaxFrame == 25
\* At most this many onset candidates are picked.
MaxOnsets == 4
\* At most this many pitch frames in the DataFrame given to segment_notes.
MaxPitchFrames == 4
\* The rounded pitches of the frames lie in MidiLo..MidiLo+MidiSpan-1.
MidiLo == 55
MidiSpan == 3
\* At most this many frames in the output of librosa.yin.
MaxF0Frames == 4
\* The defined values of a frame are fmin * 1 .. fmin * F0Levels Hz.
F0Levels == 3
\* At most this many frames in the DataFrame given to identify_notes.
MaxNoteFrames == 2
\* The note_name column is computed for rounded pitches in
\* -NameMidiBelow..NameMidiMax.
NameMidiBelow == 13
NameMidiMax == 72
\* The driver's runs have at most this many beats and this many note events.
MaxDriverBeats == 2
MaxDriverNotes == 2
\* The marking loop on its own: at most this many frames in the DataFrame,
\* at most this many onsets, on frames 0..MaxMarkOnsetFrame of the recording.
MaxMarkFrames == 3
MaxMarkOnsets == 3
MaxMarkOnsetFrame == 8

(* Program constants *)

\* AUDIO_PARAMS['hop_length']
hop_length == 512
\* np.histogram(intervals, bins=50)
bins == 50

\* The sample rate of the recording (an input; 16 metronome frames a second,
\* above the 8000 Hz the 800-4000 Hz band-pass needs).
sr == 16 * hop_length

\* Resolution of the model's clock: 1 sample = 100 * 20 ticks, which makes
\* x / 100 (bin centres, 0.01 s) and 0.15 * x = 3 * x / 20 exact.
TicksPerSample == 100 * 20
TicksPerSecond == sr * TicksPerSample

-----------------------------------------------------------------------------
(* Arithmetic helpers *)

Abs(x) == IF x < 0 THEN -x ELSE x

Range(s) == {s[k] : k \in DOMAIN s}

SetMin(S) == CHOOSE x \in S : \A y \in S : x <= y
SetMax(S) == CHOOSE x \in S : \A y \in S : x >= y

\* np.diff
diff(s) == [k \in 1..(Len(s) - 1) |-> s[k + 1] - s[k]]

\* Insertion of x into an ascending sequence.
RECURSIVE InsertSorted(_, _)
InsertSorted(s, x) ==
    IF s = <<>> THEN <<x>>
    ELSE IF x <= Head(s) THEN <<x>> \o s
    ELSE <<Head(s)>> \o InsertSorted(Tail(s), x)

RECURSIVE SortAsc(_)
SortAsc(s) == IF s = <<>> THEN <<>> ELSE InsertSorted(SortAsc(Tail(s)), Head(s))

\* Twice np.median(s) / Series.median(): the middle element of the sorted
\* values, or the mean of the two middle ones (kept doubled, so it stays an
\* integer).
median2(s) ==
    LET srt == SortAsc(s)
        n == Len(s)
    IN IF n % 2 = 1 THEN 2 * srt[(n + 1) \div 2]
       ELSE srt[n \div 2] + srt[n \div 2 + 1]

\* int(x) of Python for x = x2 / 2: truncation toward zero.
int_of_half(x2) == IF x2 >= 0 THEN x2 \div 2 ELSE -((-x2) \div 2)

\* librosa.frames_to_time(frames, sr, hop_length) = frames * hop_length / sr
\* seconds, in ticks.
frames_to_time(f, hop) == f * hop * TicksPerSample

-----------------------------------------------------------------------------
(* detect_metronome: np.histogram and the dominant interval *)

\* The (first_edge, last_edge) of np.histogram without a range argument: the
\* minimum and maximum of the data, widened by 0.5 on each side when equal.
hist_range(a) ==
    LET lo == SetMin(Range(a))
        hi == SetMax(Range(a))
    IN IF lo = hi
       THEN <<lo - TicksPerSecond \div 2, hi + TicksPerSecond \div 2>>
       ELSE <<lo, hi>>

\* bin_edges[k], k in 0..bins: np.linspace(first_edge, last_edge, bins + 1).
bin_edges(r, k) == r[1] + (k * (r[2] - r[1])) \div bins

\* The bin of x: half-open bins [edge k, edge k+1), the last one closed.
bin_index(r, x) ==
    IF x = r[2] THEN bins - 1
    ELSE ((x - r[1]) * bins) \div (r[2] - r[1])

\* hist of np.histogram(a, bins): the count of each bin 0..bins-1.
histogram(a) ==
    LET r == hist_range(a)
        idx == [j \in DOMAIN a |-> bin_index(r, a[j])]
    IN [k \in 0..(bins - 1) |-> Cardinality({j \in DOMAIN a : idx[j] = k})]

\* np.argmax(h): the first index holding the largest value.
argmax(h) ==
    CHOOSE k \in DOMAIN h :
        /\ \A j \in DOMAIN h : h[j] <= h[k]
        /\ \A j \in DOMAIN h : j < k => h[j] < h[k]

\* dominant_interval = (bin_edges[dominant_bin] + bin_edges[dominant_bin + 1]) / 2
dominant_of(intervals) ==
    LET r == hist_range(intervals)
        dominant_bin == argmax(histogram(intervals))
    IN (bin_edges(r, dominant_bin) + bin_edges(r, dominant_bin + 1)) \div 2

\* tempo = 60.0 / x if x > 0 else 0, with x in ticks: the rational num / den
\* beats per minute.
tempo_of(x) ==
    IF x > 0 THEN [num |-> 60 * TicksPerSecond, den |-> x]
    ELSE [num |-> 0, den |-> 1]

zero_tempo == [num |-> 0, den |-> 1]

\* wait = int(0.3 * sr / AUDIO_PARAMS['hop_length'])
metronome_wait == (3 * sr) \div (10 * hop_length)

\* Fewer candidates than this are returned as they are, with tempo 0.
min_onsets == 3

-----------------------------------------------------------------------------
(* detect_metronome: the beat filter *)

\* One iteration of the loop over onset_times[1:]: the candidate t against the
\* expectation E, with D the dominant interval and tol the tolerance.
\* Variant of FilterOnset: the late branch appends expected_next after its reset.
FilterOnset_appends_expected(kept, E, t, D, tol) ==
    IF Abs(t - E) <= tol
    THEN [kept |-> Append(kept, t), expected |-> t + D]
    ELSE IF t > E + tol
    THEN [kept |-> Append(kept, t + D), expected |-> t + D]
    ELSE [kept |-> kept, expected |-> E]

\* Variant of FilterOnset: no late branch, a late candidate is dropped.
FilterOnset_no_recovery(kept, E, t, D, tol) ==
    IF Abs(t - E) <= tol
    THEN [kept |-> Append(kept, t), expected |-> t + D]
    ELSE [kept |-> kept, expected |-> E]

\* Variant of FilterOnset: the late branch resets the expectation and forgets
\* to append the candidate.
FilterOnset_late_reset_only(kept, E, t, D, tol) ==
    IF Abs(t - E) <= tol
    THEN [kept |-> Append(kept, t), expected |-> t + D]
    ELSE IF t > E + tol
    THEN [kept |-> kept, expected |-> t + D]
    ELSE [kept |-> kept, expected |-> E]

FilterOnset(kept, E, t, D, tol) ==
    IF Abs(t - E) <= tol
    THEN [kept |-> Append(kept, t), expected |-> t + D]
    ELSE IF t > E + tol
    THEN [kept |-> Append(kept, t), expected |-> t + D]
    ELSE [kept |-> kept, expected |-> E]

\* The tempo returned on the filtered path: recalculated from the kept beats
\* when there are at least two, else the histogram estimate.
\* Variant of final_tempo: the mean interval instead of the median.
final_tempo_mean(kept, tempo) ==
    IF Len(kept) > 1
    THEN tempo_of((kept[Len(kept)] - kept[1]) \div (Len(kept) - 1))
    ELSE tempo

\* Variant of final_tempo: no recalculation, the histogram estimate is returned.
final_tempo_histogram_estimate(kept, tempo) ==
    tempo

final_tempo(kept, tempo) ==
    IF Len(kept) > 1
    THEN tempo_of(median2(diff(kept)) \div 2)
    ELSE tempo

NoResult == [status |-> "pending"]

\* librosa.onset.onset_detect: the next picked peak, more than `wait` frames
\* after the previous one.
PeakPick(f) ==
    /\ beat_pc = "onset_detect"
    /\ Len(onset_frames) < MaxOnsets
    /\ onset_frames # <<>> => f > onset_frames[Len(onset_frames)] + metronome_wait
    /\ onset_frames' = Append(onset_frames, f)
    /\ UNCHANGED <<beat_pc, onset_times, dominant_interval, tolerance, expected_next,
                   filtered_times, beat_i, metronome_result>>
    /\ UNCHANGED not_beat_vars

\* The filter design or the onset analysis raises: the except clause.
MetronomeFail ==
    /\ beat_pc = "onset_detect"
    /\ onset_frames = <<>>
    /\ beat_pc' = "done"
    /\ metronome_result' = [success |-> FALSE, error |-> "exception"]
    /\ UNCHANGED <<onset_frames, onset_times, dominant_interval, tolerance,
                   expected_next, filtered_times, beat_i>>
    /\ UNCHANGED not_beat_vars

\* onset_times = librosa.frames_to_time(onset_frames, ...)
FramesToTime ==
    /\ beat_pc = "onset_detect"
    /\ onset_times' = [k \in DOMAIN onset_frames |->
                          frames_to_time(onset_frames[k], hop_length)]
    /\ beat_pc' = "check"
    /\ UNCHANGED <<onset_frames, dominant_interval, tolerance, expected_next,
                   filtered_times, beat_i, metronome_result>>
    /\ UNCHANGED not_beat_vars

\* Variant of few_onsets: len(onset_times) < 2.
few_onsets_1(times) == Len(times) < min_onsets - 1

few_onsets(times) == Len(times) < min_onsets

\* if len(onset_times) < 3: return ... tempo 0, beat_times = onset_times
ReturnFewOnsets ==
    /\ beat_pc = "check"
    /\ few_onsets(onset_times)
    /\ metronome_result' = [success |-> TRUE,
                            num_beats |-> Len(onset_times),
                            tempo |-> zero_tempo,
                            beat_times |-> onset_times]
    /\ beat_pc' = "done"
    /\ UNCHANGED <<onset_frames, onset_times, dominant_interval, tolerance,
                   expected_next, filtered_times, beat_i>>
    /\ UNCHANGED not_beat_vars

\* The histogram estimate and the start of the filter.
EstimatePeriod ==
    /\ beat_pc = "check"
    /\ ~few_onsets(onset_times)
    /\ LET D == dominant_of(diff(onset_times))
       IN /\ dominant_interval' = D
          /\ filtered_times' = <<onset_times[1]>>
          /\ expected_next' = onset_times[1] + D
          /\ tolerance' = (D * 15) \div 100
    /\ beat_i' = 2
    /\ beat_pc' = "filter"
    /\ UNCHANGED <<onset_frames, onset_times, metronome_result>>
    /\ UNCHANGED not_beat_vars

\* for onset_time in onset_times[1:]: one iteration
FilterStep ==
    /\ beat_pc = "filter"
    /\ beat_i <= Len(onset_times)
    /\ LET r == FilterOnset(filtered_times, expected_next, onset_times[beat_i],
                            dominant_interval, tolerance)
       IN /\ filtered_times' = r.kept
          /\ expected_next' = r.expected
    /\ beat_i' = beat_i + 1
    /\ UNCHANGED <<beat_pc, onset_frames, onset_times, dominant_interval, tolerance,
                   metronome_result>>
    /\ UNCHANGED not_beat_vars

\* After the loop: the tempo recalculated, and the result.
ReturnFiltered ==
    /\ beat_pc = "filter"
    /\ beat_i > Len(onset_times)
    /\ metronome_result' = [success |-> TRUE,
                            num_beats |-> Len(filtered_times),
                            tempo |-> final_tempo(filtered_times,
                                                  tempo_of(dominant_interval)),
                            beat_times |-> filtered_times,
                            all_onsets |-> onset_times]
    /\ beat_pc' = "done"
    /\ UNCHANGED <<onset_frames, onset_times, dominant_interval, tolerance,
                   expected_next, filtered_times, beat_i>>
    /\ UNCHANGED not_beat_vars

NextBeats ==
    \/ \E f \in 0..MaxFrame : PeakPick(f)
    \/ MetronomeFail
    \/ FramesToTime
    \/ ReturnFewOnsets
    \/ EstimatePeriod
    \/ FilterStep
    \/ ReturnFiltered

InitBeats ==
    /\ beat_pc = "onset_detect"
    /\ onset_frames = <<>>
    /\ onset_times = <<>>
    /\ dominant_interval = 0
    /\ tolerance = 0
    /\ expected_next = 0
    /\ filtered_times = <<>>
    /\ beat_i = 0
    /\ metronome_result = NoResult

InitSegment ==
    /\ seg_pc = "start"
    /\ df = <<>>
    /\ note_onset_frames = <<>>
    /\ notes = <<>>
    /\ current_note_start = 0
    /\ seg_i = 0
    /\ segment_result = NoResult

-----------------------------------------------------------------------------
(* identify_notes: the note name of a rounded pitch.  A string is the       *)
(* sequence of its character codes, so that pandas' sort of the names can   *)
(* be computed.                                                             *)

\* NOTE_NAMES = ['C', 'C#', 'D', 'D#', 'E', 'F', 'F#', 'G', 'G#', 'A', 'A#', 'B'],
\* indexed from 0 ('#' is 35, 'A' is 65).
NOTE_NAMES(k) ==
    CASE k = 0 -> <<67>>
      [] k = 1 -> <<67, 35>>
      [] k = 2 -> <<68>>
      [] k = 3 -> <<68, 35>>
      [] k = 4 -> <<69>>
      [] k = 5 -> <<70>>
      [] k = 6 -> <<70, 35>>
      [] k = 7 -> <<71>>
      [] k = 8 -> <<71, 35>>
      [] k = 9 -> <<65>>
      [] k = 10 -> <<65, 35>>
      [] k = 11 -> <<66>>

\* The decimal digits of n >= 0 ('0' is 48).
RECURSIVE digits(_)
digits(n) == IF n < 10 THEN <<48 + n>> ELSE digits(n \div 10) \o <<48 + (n % 10)>>

\* str(n) of Python ('-' is 45).
str(n) == IF n < 0 THEN <<45>> \o digits(-n) ELSE digits(n)

\* The octave taken as midi // 12, without the - 1.
note_name_octave_from_zero(midi) == NOTE_NAMES(midi % 12) \o str(midi \div 12)

\* lambda midi: NOTE_NAMES[midi % 12] + str(midi // 12 - 1)
note_name_of(midi) == NOTE_NAMES(midi % 12) \o str(midi \div 12 - 1)

\* a < b for Python strings: by code point, a proper prefix first.
RECURSIVE str_less(_, _)
str_less(a, b) ==
    IF b = <<>> THEN FALSE
    ELSE IF a = <<>> THEN TRUE
    ELSE IF Head(a) # Head(b) THEN Head(a) < Head(b)
    ELSE str_less(Tail(a), Tail(b))

-----------------------------------------------------------------------------
(* segment_notes *)

\* hop_length = int(0.05 * sr)
pitch_hop == (5 * sr) \div 100

\* wait = int(0.1 * sr / hop_length)
note_wait == sr \div (10 * pitch_hop)

\* len(df)
len(d) == Cardinality(DOMAIN d)

\* df.loc[a:b]: the rows with labels a..b, both included, as a sequence.
loc(d, a, b) == [k \in 1..(b - a + 1) |-> d[a + k - 1]]

\* The number of occurrences of v in the sequence s.
count(s, v) == Cardinality({k \in DOMAIN s : s[k] = v})

\* The set S of strings as an ascending sequence.
RECURSIVE sorted_strings(_)
sorted_strings(S) ==
    IF S = {} THEN <<>>
    ELSE LET m == CHOOSE x \in S : \A y \in S : x = y \/ str_less(x, y)
         IN <<m>> \o sorted_strings(S \ {m})

\* The values of s in the order of their first occurrence.
RECURSIVE unique(_)
unique(s) ==
    IF s = <<>> THEN <<>>
    ELSE LET u == unique(SubSeq(s, 1, Len(s) - 1))
         IN IF s[Len(s)] \in Range(u) THEN u ELSE Append(u, s[Len(s)])

\* Variant of mode: the most frequent values in order of first occurrence.
mode_first_seen(s) ==
    LET most == SetMax({count(s, v) : v \in Range(s)})
    IN SelectSeq(unique(s), LAMBDA v : count(s, v) = most)

\* Series.mode(): the most frequent values, sorted.
mode(s) ==
    LET most == SetMax({count(s, v) : v \in Range(s)})
    IN sorted_strings({v \in Range(s) : count(s, v) = most})

\* note_segment['note_name'].mode()[0] if len(...mode()) > 0 else ...iloc[0]
dominant_name(segment) ==
    LET names == [k \in DOMAIN segment |-> segment[k].note_name]
    IN IF Len(mode(names)) > 0 THEN mode(names)[1] ELSE names[1]

\* Variant of dominant_midi: the median rounded half up.
dominant_midi_rounded_up(segment) ==
    LET m2 == median2([k \in DOMAIN segment |-> segment[k].midi_rounded])
    IN (m2 + 1) \div 2

\* int(note_segment['midi_rounded'].median())
dominant_midi(segment) ==
    int_of_half(median2([k \in DOMAIN segment |-> segment[k].midi_rounded]))

\* Variant of note_of: the duration counts the last frame's own length.
note_of_duration_with_last_frame(segment) ==
    [start_time |-> segment[1].time_s,
     end_time |-> segment[Len(segment)].time_s,
     duration |-> segment[Len(segment)].time_s - segment[1].time_s
                      + frames_to_time(1, pitch_hop),
     note_name |-> dominant_name(segment),
     midi_number |-> dominant_midi(segment)]

\* The dict appended to notes for a segment (the averages of f0, ideal_freq
\* and cents_off, which no control flow reads, are left out).
note_of(segment) ==
    [start_time |-> segment[1].time_s,
     end_time |-> segment[Len(segment)].time_s,
     duration |-> segment[Len(segment)].time_s - segment[1].time_s,
     note_name |-> dominant_name(segment),
     midi_number |-> dominant_midi(segment)]

\* Variant of append_note: a single-frame segment is not appended.
append_note_longer_than_one(ns, segment) ==
    IF Len(segment) > 1 THEN Append(ns, note_of(segment)) ELSE ns

\* if len(note_segment) > 0: notes.append({...})
append_note(ns, segment) ==
    IF Len(segment) > 0 THEN Append(ns, note_of(segment)) ELSE ns

\* Variant of previous_note: df.loc[current_note_start:i].
previous_note_through_i(d, start, i) == loc(d, start, i)

\* note_segment = df.loc[current_note_start:i-1]
previous_note(d, start, i) == loc(d, start, i - 1)

\* Variant of closest_idx: the last label with the smallest distance.
closest_idx_last_minimum(d, onset_time) ==
    CHOOSE i \in DOMAIN d :
        /\ \A j \in DOMAIN d :
               Abs(d[i].time_s - onset_time) <= Abs(d[j].time_s - onset_time)
        /\ \A j \in DOMAIN d :
               j > i => Abs(d[j].time_s - onset_time) > Abs(d[i].time_s - onset_time)

\* (df['time_s'] - onset_time).abs().idxmin(): the first label with the
\* smallest distance.
closest_idx(d, onset_time) ==
    CHOOSE i \in DOMAIN d :
        /\ \A j \in DOMAIN d :
               Abs(d[i].time_s - onset_time) <= Abs(d[j].time_s - onset_time)
        /\ \A j \in DOMAIN d :
               j < i => Abs(d[j].time_s - onset_time) > Abs(d[i].time_s - onset_time)

\* Variant of significant_change: df['midi_change'] >= 1.
significant_change_from_1(change) == change >= 1

\* Variant of significant_change: df['midi_change'] > 2.
significant_change_above_2(change) == change > 2

\* df['midi_change'] > 1
significant_change(change) == change > 1

\* df['midi_rounded'].diff().abs() > 1; the diff of row 0 is NaN, and
\* NaN > 1 is False.
is_pitch_change(d, i) ==
    IF i = 0 THEN FALSE
    ELSE significant_change(Abs(d[i].midi_rounded - d[i - 1].midi_rounded))

\* Variant of is_note_start: df['is_onset'] & df['is_pitch_change'].
is_note_start_both(onset, pitch_change) == onset /\ pitch_change

\* df['is_onset'] | df['is_pitch_change']
is_note_start(onset, pitch_change) == onset \/ pitch_change

\* The DataFrame identify_notes returns for n frames with rounded pitches m:
\* rows 0..n-1, time_s = frames_to_time(arange(n)) from extract_pitch.
frames_df(n, m) ==
    [i \in 0..(n - 1) |->
        [time_s |-> frames_to_time(i, pitch_hop),
         midi_rounded |-> m[i],
         note_name |-> note_name_of(m[i])]]

\* segment_notes is called with the DataFrame of identify_notes.
LoadFrames(n, m) ==
    /\ seg_pc = "start"
    /\ df' = frames_df(n, m)
    /\ seg_pc' = "onset_detect"
    /\ UNCHANGED <<note_onset_frames, notes, current_note_start, seg_i, segment_result>>
    /\ UNCHANGED not_seg_vars

\* librosa.onset.onset_detect on the waveform: the next picked peak, a frame
\* of the recording more than `wait` frames after the previous one.
NotePeakPick(f) ==
    /\ seg_pc = "onset_detect"
    /\ f \in DOMAIN df
    /\ note_onset_frames # <<>> =>
           f > note_onset_frames[Len(note_onset_frames)] + note_wait
    /\ note_onset_frames' = Append(note_onset_frames, f)
    /\ UNCHANGED <<seg_pc, df, notes, current_note_start, seg_i, segment_result>>
    /\ UNCHANGED not_seg_vars

\* The onset analysis raises: the except clause.
SegmentFail ==
    /\ seg_pc = "onset_detect"
    /\ note_onset_frames = <<>>
    /\ seg_pc' = "done"
    /\ segment_result' = [success |-> FALSE, error |-> "exception"]
    /\ UNCHANGED <<df, note_onset_frames, notes, current_note_start, seg_i>>
    /\ UNCHANGED not_seg_vars

\* The onset markers, the pitch changes and the note starts are added to the
\* DataFrame; notes = [], current_note_start = 0.
MarkNoteStarts ==
    /\ seg_pc = "onset_detect"
    /\ LET times == [k \in DOMAIN note_onset_frames |->
                        frames_to_time(note_onset_frames[k], pitch_hop)]
           marked == {closest_idx(df, times[k]) : k \in DOMAIN times}
       IN df' = [i \in DOMAIN df |->
                    [time_s |-> df[i].time_s,
                     midi_rounded |-> df[i].midi_rounded,
                     note_name |-> df[i].note_name,
                     is_onset |-> i \in marked,
                     is_pitch_change |-> is_pitch_change(df, i),
                     is_note_start |-> is_note_start(i \in marked,
                                                    is_pitch_change(df, i))]]
    /\ notes' = <<>>
    /\ current_note_start' = 0
    /\ seg_i' = 1
    /\ seg_pc' = "segment"
    /\ UNCHANGED <<note_onset_frames, segment_result>>
    /\ UNCHANGED not_seg_vars

\* for i in range(1, len(df)): one iteration
SegmentStep ==
    /\ seg_pc = "segment"
    /\ seg_i < len(df)
    /\ IF df[seg_i].is_note_start
       THEN /\ notes' = IF seg_i > current_note_start
                        THEN append_note(notes,
                                         previous_note(df, current_note_start, seg_i))
                        ELSE notes
            /\ current_note_start' = seg_i
       ELSE UNCHANGED <<notes, current_note_start>>
    /\ seg_i' = seg_i + 1
    /\ UNCHANGED <<seg_pc, df, note_onset_frames, segment_result>>
    /\ UNCHANGED not_seg_vars

\* After the loop: the final note, and the result.
SegmentReturn ==
    /\ seg_pc = "segment"
    /\ seg_i >= len(df)
    /\ LET final == IF current_note_start < len(df)
                    THEN append_note(notes, loc(df, current_note_start, len(df) - 1))
                    ELSE notes
       IN /\ notes' = final
          /\ segment_result' = [success |-> TRUE,
                                df |-> df,
                                notes |-> final,
                                num_notes |-> Len(final),
                                num_onsets |-> Len(note_onset_frames)]
    /\ seg_pc' = "done"
    /\ UNCHANGED <<df, note_onset_frames, current_note_start, seg_i>>
    /\ UNCHANGED not_seg_vars

MidiValues == MidiLo..(MidiLo + MidiSpan - 1)

NextSegment ==
    \/ \E n \in 0..MaxPitchFrames : \E m \in [0..(n - 1) -> MidiValues] : LoadFrames(n, m)
    \/ \E f \in 0..(MaxPitchFrames - 1) : NotePeakPick(f)
    \/ SegmentFail
    \/ MarkNoteStarts
    \/ SegmentStep
    \/ SegmentReturn

-----------------------------------------------------------------------------
(* segment_notes, lines 270-277: the onset markers, for any DataFrame whose *)
(* time_s column ascends.  The pipeline passes the DataFrame of the same    *)
(* recording (every frame, from frame 0); here the DataFrame may also start *)
(* at a later frame, hold every second frame only, or end before the        *)
(* recording does.                                                          *)

\* The onset frames librosa.onset.onset_detect can return: ascending, each
\* more than `wait` frames after the one before.
OnsetFrameSeqs ==
    {f \in UNION {[1..k -> 0..MaxMarkOnsetFrame] : k \in 0..MaxMarkOnsets} :
        \A j \in 1..(Len(f) - 1) : f[j + 1] > f[j] + note_wait}

\* segment_notes gets a DataFrame of n frames, the frames first,
\* first + stride, ... of the recording, and detects the onsets at frames;
\* df['is_onset'] = False.
MarkLoad(n, first, stride, frames) ==
    /\ mark_pc = "start"
    /\ mark_df' = [i \in 0..(n - 1) |->
                      [time_s |-> frames_to_time(first + stride * i, pitch_hop),
                       is_onset |-> FALSE]]
    /\ mark_onset_times' = [k \in DOMAIN frames |-> frames_to_time(frames[k], pitch_hop)]
    /\ mark_k' = 1
    /\ mark_pc' = "loop"
    /\ UNCHANGED mark_result
    /\ UNCHANGED not_mark_vars

\* for onset_time in onset_times: one iteration.
MarkOnset ==
    /\ mark_pc = "loop"
    /\ mark_k <= Len(mark_onset_times)
    /\ mark_df' = [mark_df EXCEPT ![closest_idx(mark_df, mark_onset_times[mark_k])].is_onset
                                      = TRUE]
    /\ mark_k' = mark_k + 1
    /\ UNCHANGED <<mark_pc, mark_onset_times, mark_result>>
    /\ UNCHANGED not_mark_vars

\* After the loop; what the result says of the onsets (lines 332-336).
MarkReturn ==
    /\ mark_pc = "loop"
    /\ mark_k > Len(mark_onset_times)
    /\ mark_result' = [success |-> TRUE, df |-> mark_df,
                       num_onsets |-> Len(mark_onset_times),
                       onset_times |-> mark_onset_times]
    /\ mark_pc' = "done"
    /\ UNCHANGED <<mark_df, mark_onset_times, mark_k>>
    /\ UNCHANGED not_mark_vars

NextOnsetMarks ==
    \/ \E n \in 1..MaxMarkFrames : \E first \in 0..1 : \E stride \in 1..2 :
           \E frames \in OnsetFrameSeqs : MarkLoad(n, first, stride, frames)
    \/ MarkOnset
    \/ MarkReturn

InitOnsetMarks ==
    /\ mark_pc = "start"
    /\ mark_df = <<>>
    /\ mark_onset_times = <<>>
    /\ mark_k = 0
    /\ mark_result = [status |-> "pending"]

-----------------------------------------------------------------------------
(* extract_pitch.  A frequency is the rational num / den Hz; den = 0 is NaN. *)

\* AUDIO_PARAMS['fmin']
fmin == 196

NaN == [num |-> 0, den |-> 0]

\* np.isnan
isnan(v) == v.den = 0

\* The frequency of v whole Hz.
hz(v) == [num |-> v, den |-> 1]

\* a < b for two defined frequencies.
freq_less(a, b) == a.num * b.den < b.num * a.den

\* np.where(mask)[0]: the indices (of 0..n-1) where mask holds, ascending.
RECURSIVE where(_, _)
where(mask, n) ==
    IF n = 0 THEN <<>>
    ELSE IF mask[n - 1] THEN Append(where(mask, n - 1), n - 1)
    ELSE where(mask, n - 1)

\* Variant of interp: np.interp(x, xp, fp, left=nan, right=nan).
interp_nan_outside(x, xp, fp) ==
    IF x < xp[1] \/ x > xp[Len(xp)] THEN NaN
    ELSE LET j == SetMax({k \in DOMAIN xp : xp[k] <= x})
         IN IF xp[j] = x THEN fp[j]
            ELSE [num |-> fp[j].num * (xp[j + 1] - xp[j])
                             + (fp[j + 1].num - fp[j].num) * (x - xp[j]),
                  den |-> xp[j + 1] - xp[j]]

\* Variant of interp: the previous defined value is carried forward.
interp_forward_fill(x, xp, fp) ==
    IF x < xp[1] THEN fp[1]
    ELSE fp[SetMax({k \in DOMAIN xp : xp[k] <= x})]

\* Variant of interp: outside xp the line through the two outermost points
\* is continued.
interp_extrapolate_slope(x, xp, fp) ==
    IF Len(xp) = 1 THEN fp[1]
    ELSE LET j == IF x <= xp[1] THEN 1
                  ELSE IF x >= xp[Len(xp)] THEN Len(xp) - 1
                  ELSE SetMax({k \in DOMAIN xp : xp[k] <= x})
         IN [num |-> fp[j].num * (xp[j + 1] - xp[j])
                         + (fp[j + 1].num - fp[j].num) * (x - xp[j]),
             den |-> xp[j + 1] - xp[j]]

\* np.interp(x, xp, fp) at one point x, for ascending xp and whole-Hz fp:
\* fp[0] left of xp[0], fp[-1] right of xp[-1], and in between the line
\* through the two points around x.
interp(x, xp, fp) ==
    IF x <= xp[1] THEN fp[1]
    ELSE IF x >= xp[Len(xp)] THEN fp[Len(xp)]
    ELSE LET j == SetMax({k \in DOMAIN xp : xp[k] <= x})
         IN IF xp[j] = x THEN fp[j]
            ELSE [num |-> fp[j].num * (xp[j + 1] - xp[j])
                             + (fp[j + 1].num - fp[j].num) * (x - xp[j]),
                  den |-> xp[j + 1] - xp[j]]

\* Lines 158-171: f0_clean = f0.copy(), then its NaNs interpolated when there
\* is a NaN and a value that is not.
fill_gaps(raw) ==
    LET n == len(raw)
        nan_mask == [i \in DOMAIN raw |-> isnan(raw[i])]
        valid_indices == where([i \in DOMAIN raw |-> ~nan_mask[i]], n)
        valid_values == [k \in DOMAIN valid_indices |-> raw[valid_indices[k]]]
    IN IF (\E i \in DOMAIN raw : nan_mask[i]) /\ Len(valid_indices) > 0
       THEN [i \in DOMAIN raw |->
                IF nan_mask[i] THEN interp(i, valid_indices, valid_values)
                ELSE raw[i]]
       ELSE raw

\* np.nanmin / np.nanmax: over the values that are not NaN, NaN if none.
nanmin(a) ==
    LET S == {a[i] : i \in {j \in DOMAIN a : ~isnan(a[j])}}
    IN IF S = {} THEN NaN
       ELSE CHOOSE x \in S : \A y \in S : ~freq_less(y, x)
nanmax(a) ==
    LET S == {a[i] : i \in {j \in DOMAIN a : ~isnan(a[j])}}
    IN IF S = {} THEN NaN
       ELSE CHOOSE x \in S : \A y \in S : ~freq_less(x, y)

\* librosa.yin: one value per frame, defined or not.
Yin(n, raw) ==
    /\ pitch_pc = "start"
    /\ f0' = raw
    /\ pitch_pc' = "fill"
    /\ UNCHANGED <<f0_clean, pitch_result>>
    /\ UNCHANGED not_pitch_vars

\* librosa.yin raises: the except clause.
PitchFail ==
    /\ pitch_pc = "start"
    /\ pitch_pc' = "done"
    /\ pitch_result' = [success |-> FALSE, error |-> "exception"]
    /\ UNCHANGED <<f0, f0_clean>>
    /\ UNCHANGED not_pitch_vars

\* Handle NaN values: lines 156-171.
FillGaps ==
    /\ pitch_pc = "fill"
    /\ f0_clean' = fill_gaps(f0)
    /\ pitch_pc' = "return"
    /\ UNCHANGED <<f0, pitch_result>>
    /\ UNCHANGED not_pitch_vars

\* The diagnostics, the DataFrame and the result: lines 173-192.
PitchReturn ==
    /\ pitch_pc = "return"
    /\ LET nan_count == Cardinality({i \in DOMAIN f0 : isnan(f0[i])})
       IN pitch_result' =
              [success |-> TRUE,
               df |-> [i \in DOMAIN f0 |->
                          [time_s |-> frames_to_time(i, pitch_hop),
                           f0 |-> f0_clean[i],
                           f0_raw |-> f0[i]]],
               num_frames |-> len(f0),
               nan_count |-> nan_count,
               nan_percentage |-> [num |-> nan_count * 100, den |-> len(f0)],
               frequency_range |-> <<nanmin(f0), nanmax(f0)>>]
    /\ pitch_pc' = "done"
    /\ UNCHANGED <<f0, f0_clean>>
    /\ UNCHANGED not_pitch_vars

\* The values a frame of librosa.yin's output takes in the model.
RawValues == {NaN} \cup {hz(fmin * k) : k \in 1..F0Levels}

NextPitch ==
    \/ \E n \in 1..MaxF0Frames : \E raw \in [0..(n - 1) -> RawValues] : Yin(n, raw)
    \/ PitchFail
    \/ FillGaps
    \/ PitchReturn

InitPitch ==
    /\ pitch_pc = "start"
    /\ f0 = <<>>
    /\ f0_clean = <<>>
    /\ pitch_result = NoResult

-----------------------------------------------------------------------------
(* identify_notes.  A frequency is kept on the logarithmic scale the        *)
(* function itself works on: a positive f0 is the record                    *)
(* [kind |-> "pos", cents |-> c] with c = 100 * (69 + 12 * log2(f0 / 440)), *)
(* so that midi_float is c / 100; zero, negative and undefined (NaN)        *)
(* frequencies are the other kinds.  The rounding error of float64 log2 is  *)
(* not modelled.                                                            *)

freq_of_cents(c) == [kind |-> "pos", cents |-> c]
zero_freq == [kind |-> "zero", cents |-> 0]
negative_freq == [kind |-> "neg", cents |-> 0]
nan_freq == [kind |-> "nan", cents |-> 0]

\* 69 + 12 * np.log2(f / 440.0): log2 of 0 is -inf and log2 of a negative
\* number or of NaN is NaN (numpy warns and goes on).
midi_float_of(f) ==
    IF f.kind = "pos" THEN [kind |-> "finite", cents |-> f.cents]
    ELSE IF f.kind = "zero" THEN [kind |-> "-inf", cents |-> 0]
    ELSE [kind |-> "nan", cents |-> 0]

\* Series.round() is numpy's rounding: to the nearest integer, a tie going
\* to the even neighbour.  Here for c / 100.
round_half_even(c) ==
    LET q == c \div 100
        r == c % 100
    IN IF r < 50 THEN q
       ELSE IF r > 50 THEN q + 1
       ELSE IF q % 2 = 0 THEN q ELSE q + 1

\* Series.round() of one value: a non-finite value stays what it is.
round(v) ==
    IF v.kind = "finite" THEN [kind |-> "finite", cents |-> 100 * round_half_even(v.cents)]
    ELSE v

\* A cast that lets -inf through and raises for NaN alone.
astype_int_raises_nan_only(col) == \E i \in DOMAIN col : col[i].kind = "nan"

\* Series.astype(int) raises ("Cannot convert non-finite values (NA or inf)
\* to integer") when a value of the column is NaN or infinite.
astype_int_raises(col) == \E i \in DOMAIN col : col[i].kind # "finite"

\* Series.astype(int) of one (rounded) value.
astype_int(v) == v.cents \div 100

\* 440.0 * (2 ** ((midi_rounded - 69) / 12)), on the logarithmic scale.
ideal_freq_of(midi) == freq_of_cents(100 * midi)

RECURSIVE sum(_)
sum(s) == IF s = <<>> THEN 0 ELSE Head(s) + sum(Tail(s))

\* Series.value_counts().to_dict()
value_counts(col) ==
    [v \in Range(col) |-> Cardinality({k \in DOMAIN col : col[k] = v})]

\* identify_notes(df) is called with a DataFrame of n frames whose f0 column
\* is f.
IdentifyCall(n, f) ==
    /\ id_pc = "start"
    /\ id_df' = [i \in 0..(n - 1) |-> [f0 |-> f[i]]]
    /\ id_pc' = "midi_float"
    /\ UNCHANGED identify_result
    /\ UNCHANGED not_id_vars

\* df['midi_float'] = 69 + 12 * np.log2(df['f0'] / 440.0)
MidiFloat ==
    /\ id_pc = "midi_float"
    /\ id_df' = [i \in DOMAIN id_df |->
                    [f0 |-> id_df[i].f0, midi_float |-> midi_float_of(id_df[i].f0)]]
    /\ id_pc' = "round"
    /\ UNCHANGED identify_result
    /\ UNCHANGED not_id_vars

\* df['midi_rounded'] = df['midi_float'].round().astype(int); the exception
\* of the cast is caught by "except Exception" (lines 242-246).
MidiRounded ==
    /\ id_pc = "round"
    /\ LET rounded == [i \in DOMAIN id_df |-> round(id_df[i].midi_float)]
       IN IF astype_int_raises(rounded)
          THEN /\ identify_result' = [success |-> FALSE, error |-> "IntCastingNaNError"]
               /\ id_pc' = "done"
               /\ UNCHANGED id_df
          ELSE /\ id_df' = [i \in DOMAIN id_df |->
                               [f0 |-> id_df[i].f0,
                                midi_float |-> id_df[i].midi_float,
                                midi_rounded |-> astype_int(rounded[i])]]
               /\ id_pc' = "columns"
               /\ UNCHANGED identify_result
    /\ UNCHANGED not_id_vars

\* Lines 218-226: cents_off, note_name and ideal_freq.
NoteColumns ==
    /\ id_pc = "columns"
    /\ id_df' = [i \in DOMAIN id_df |->
                    [f0 |-> id_df[i].f0,
                     midi_float |-> id_df[i].midi_float,
                     midi_rounded |-> id_df[i].midi_rounded,
                     cents_off |-> id_df[i].midi_float.cents - 100 * id_df[i].midi_rounded,
                     note_name |-> note_name_of(id_df[i].midi_rounded),
                     ideal_freq |-> ideal_freq_of(id_df[i].midi_rounded)]]
    /\ id_pc' = "return"
    /\ UNCHANGED identify_result
    /\ UNCHANGED not_id_vars

\* Lines 228-241: the statistics and the success result.  avg_cents_off is
\* the rational num / den.
IdentifyReturn ==
    /\ id_pc = "return"
    /\ LET names == [k \in 1..len(id_df) |-> id_df[k - 1].note_name]
           abs_cents == [k \in 1..len(id_df) |-> Abs(id_df[k - 1].cents_off)]
       IN identify_result' =
              [success |-> TRUE,
               df |-> id_df,
               note_counts |-> value_counts(names),
               unique_notes |-> Cardinality(Range(names)),
               avg_cents_off |-> [num |-> sum(abs_cents), den |-> len(id_df)]]
    /\ id_pc' = "done"
    /\ UNCHANGED id_df
    /\ UNCHANGED not_id_vars

\* The f0 values of the frames given to identify_notes: pitches on, just
\* below, exactly at and just above the midpoint between two semitones, and
\* the frequencies that have no logarithm.
FreqValues ==
    {freq_of_cents(100 * m + c) : m \in MidiValues, c \in {0, 49, 50, 51}}
        \cup {zero_freq, negative_freq, nan_freq}

NextIdentify ==
    \/ \E n \in 1..MaxNoteFrames : \E f \in [0..(n - 1) -> FreqValues] : IdentifyCall(n, f)
    \/ MidiFloat
    \/ MidiRounded
    \/ NoteColumns
    \/ IdentifyReturn

InitIdentify ==
    /\ id_pc = "start"
    /\ id_df = <<>>
    /\ identify_result = [status |-> "pending"]

-----------------------------------------------------------------------------
(* The note_name column of identify_notes over the whole range of rounded   *)
(* pitches (lines 220-223), two frames at a time.                           *)

\* identify_notes has reached line 221 with these two values in
\* df['midi_rounded'].
MidiColumn(a, b) ==
    /\ name_pc = "start"
    /\ midi_column' = <<a, b>>
    /\ name_pc' = "apply"
    /\ UNCHANGED name_column
    /\ UNCHANGED not_name_vars

\* df['note_name'] = df['midi_rounded'].apply(lambda midi: ...)
ApplyNoteName ==
    /\ name_pc = "apply"
    /\ name_column' = [k \in DOMAIN midi_column |-> note_name_of(midi_column[k])]
    /\ name_pc' = "done"
    /\ UNCHANGED midi_column
    /\ UNCHANGED not_name_vars

NameMidiValues == (-NameMidiBelow)..NameMidiMax

NextNoteNames ==
    \/ \E a \in NameMidiValues : \E b \in NameMidiValues : MidiColumn(a, b)
    \/ ApplyNoteName

InitNoteNames ==
    /\ name_pc = "start"
    /\ midi_column = <<>>
    /\ name_column = <<>>

-----------------------------------------------------------------------------
(* The pipeline driver: analyze_audio of handlers/analysis.py and the       *)
(* handle_voice of bot.py, which run the same sequence of stages and differ *)
(* in what follows a failed plot.  The payloads the driver only passes on   *)
(* are tokens; the times of the beats and note events it passes to the      *)
(* timing scorer are in milliseconds.                                       *)

\* The exceptions the body of a stage raises: errors of numpy, scipy, librosa
\* and pandas, all subclasses of Exception.
InternalErrors == {"ValueError", "ParameterError", "MemoryError"}

\* issubclass(type(e), Exception): KeyboardInterrupt and SystemExit are not.
is_Exception(e) == e \notin {"KeyboardInterrupt", "SystemExit"}

\* A stage written with "except ValueError" in place of "except Exception".
stage_call_except_ValueError(body) ==
    IF ~body.raises
    THEN [propagates |-> FALSE, exc |-> "", result |-> [success |-> TRUE] @@ body.payload]
    ELSE IF body.exc = "ValueError"
    THEN [propagates |-> FALSE, exc |-> "",
          result |-> [success |-> FALSE, error |-> body.exc]]
    ELSE [propagates |-> TRUE, exc |-> body.exc, result |-> [status |-> "pending"]]

\* A call of a stage.  The whole body of every stage is
\*     try: ... return {'success': True, ...}
\*     except Exception as e: return {'success': False, 'error': str(e)}
\* body tells whether the try block raises, and what it raises or returns.
stage_call(body) ==
    IF ~body.raises
    THEN [propagates |-> FALSE, exc |-> "", result |-> [success |-> TRUE] @@ body.payload]
    ELSE IF is_Exception(body.exc)
    THEN [propagates |-> FALSE, exc |-> "",
          result |-> [success |-> FALSE, error |-> body.exc]]
    ELSE [propagates |-> TRUE, exc |-> body.exc, result |-> [status |-> "pending"]]

\* The failure branch without its return statement.
fall_through_on_failure(next) == next

\* if not result['success']: ...reply_text(error)...; return
return_on_failure(next) == "end"

\* A timing step that gives up when the scorer fails.
after_timing_return_on_failure(result) == IF result.success THEN "viz" ELSE "end"

\* if timing_result['success']: ...reply_text(message)...  and, either way,
\* on to the plot.
after_timing(result) == "viz"

\* The second argument of visualize_pitch_and_notes.
notes_for_plot(timing_result, seg_result) ==
    IF timing_result.success THEN timing_result.notes_with_timing ELSE seg_result.notes

\* What follows the plot: bot.py returns when it failed, analyze_audio goes
\* on to the video either way.
after_visualization(d, viz_result) ==
    IF d = "bot" /\ ~viz_result.success THEN "end" ELSE "video"

\* The beat nearest to time t (the earlier one of two equally near).
nearest_beat(t, beat_times) ==
    LET dist == SetMin({Abs(t - beat_times[k]) : k \in DOMAIN beat_times})
    IN beat_times[SetMin({k \in DOMAIN beat_times : Abs(t - beat_times[k]) = dist})]

\* The tolerance (ms) within which a note counts as on the beat.
on_beat_tolerance == 50

\* The timing scorer: for each event the signed offset to the nearest beat
\* and whether it is on the beat; the mean absolute offset and the
\* percentage on the beat (rationals num / den); a failure result when
\* there is no beat.
calculate_timing_accuracy(events, beat_times) ==
    IF beat_times = <<>>
    THEN [success |-> FALSE, error |-> "no beats"]
    ELSE LET err == [k \in DOMAIN events |->
                        events[k].start_time - nearest_beat(events[k].start_time, beat_times)]
         IN [success |-> TRUE,
             notes_with_timing |->
                 [k \in DOMAIN events |->
                     events[k] @@ [timing_error |-> err[k],
                                   on_beat |-> Abs(err[k]) <= on_beat_tolerance]],
             avg_timing_error |->
                 [num |-> sum([k \in DOMAIN events |-> Abs(err[k])]), den |-> Len(events)],
             on_beat_percentage |->
                 [num |-> 100 * Cardinality({k \in DOMAIN events :
                                                 Abs(err[k]) <= on_beat_tolerance}),
                  den |-> Len(events)]]

\* The local variables that hold what the stages returned.
ResultNames == {"result", "metronome_result", "viz_metro_result", "pitch_result",
                "note_result", "segment_result", "timing_result", "viz_result",
                "video_result"}

\* The positions of the driver at which it is about to call a stage.
Positions == <<"load", "metronome", "viz_metro", "pitch", "notes", "segment",
               "timing", "viz", "video">>

\* The driver calls fn(args), binds what it returns to the local variable
\* key and goes on at next_ok or, after a failure result, at next_failed;
\* sends_ok or sends_failed is what it then sends to the user.
CallStage(fn, key, args, body, next_ok, next_failed, sends_ok, sends_failed) ==
    LET call == stage_call(body)
    IN /\ invoked' = Append(invoked, [fn |-> fn, args |-> args])
       /\ IF call.propagates
          THEN /\ drv_pc' = "raised"
               /\ exception' = [exc |-> call.exc, at |-> fn]
               /\ UNCHANGED <<results, sent>>
          ELSE /\ results' = [results EXCEPT ![key] = call.result]
               /\ drv_pc' = IF call.result.success THEN next_ok ELSE next_failed
               /\ sent' = sent \o (IF call.result.success THEN sends_ok ELSE sends_failed)
               /\ UNCHANGED exception
       /\ UNCHANGED driver
       /\ UNCHANGED not_drv_vars

\* What the driver sends after a failure: the error text.
error_reply(fn) == <<[kind |-> "error", about |-> fn]>>

\* What the driver sends after a plot was made: the photo.
photo_reply(fn) == <<[kind |-> "photo", about |-> fn]>>

\* The try block of a stage raises e, or returns the payload p.
Raises(e) == [raises |-> TRUE, exc |-> e, payload |-> [none |-> 0]]
Returns(p) == [raises |-> FALSE, exc |-> "", payload |-> p]
Bodies(payloads) == {Raises(e) : e \in InternalErrors} \cup {Returns(p) : p \in payloads}

\* A voice message arrives and handle_voice of driver d (handlers/analysis.py
\* or bot.py) gets to the pipeline.
HandleVoice(d) ==
    /\ drv_pc = "idle"
    /\ driver' = d
    /\ drv_pc' = "load"
    /\ UNCHANGED <<results, invoked, exception, sent>>
    /\ UNCHANGED not_drv_vars

\* result = load_audio(filepath)
LoadAudio(body) ==
    /\ drv_pc = "load"
    /\ CallStage("load_audio", "result", [filepath |-> "voice.ogg"], body,
                 "metronome", return_on_failure("metronome"),
                 <<>>, error_reply("load_audio"))

\* metronome_result = detect_metronome(result['y'], result['sr'])
DetectMetronome(body) ==
    /\ drv_pc = "metronome"
    /\ CallStage("detect_metronome", "metronome_result",
                 [y |-> results["result"].y, sr |-> results["result"].sr], body,
                 "viz_metro", return_on_failure("viz_metro"),
                 <<>>, error_reply("detect_metronome"))

\* viz_metro_result = visualize_metronome_detection(...); the photo is sent
\* when it succeeded, and the pipeline goes on either way.
VisualizeMetronome(body) ==
    /\ drv_pc = "viz_metro"
    /\ CallStage("visualize_metronome_detection", "viz_metro_result",
                 [y |-> results["result"].y, sr |-> results["result"].sr,
                  beat_times |-> results["metronome_result"].beat_times,
                  filepath |-> "voice.ogg"], body,
                 "pitch", "pitch",
                 photo_reply("visualize_metronome_detection"), <<>>)

\* pitch_result = extract_pitch(result['y'], result['sr'])
ExtractPitch(body) ==
    /\ drv_pc = "pitch"
    /\ CallStage("extract_pitch", "pitch_result",
                 [y |-> results["result"].y, sr |-> results["result"].sr], body,
                 "notes", return_on_failure("notes"),
                 <<>>, error_reply("extract_pitch"))

\* note_result = identify_notes(pitch_result['df'])
IdentifyNotes(body) ==
    /\ drv_pc = "notes"
    /\ CallStage("identify_notes", "note_result",
                 [df |-> results["pitch_result"].df], body,
                 "segment", return_on_failure("segment"),
                 <<>>, error_reply("identify_notes"))

\* segment_result = segment_notes(note_result['df'], result['y'], result['sr'])
SegmentNotes(body) ==
    /\ drv_pc = "segment"
    /\ CallStage("segment_notes", "segment_result",
                 [df |-> results["note_result"].df,
                  y |-> results["result"].y, sr |-> results["result"].sr], body,
                 "timing", return_on_failure("timing"),
                 <<>>, error_reply("segment_notes"))

\* timing_result = calculate_timing_accuracy(segment_result['notes'],
\*                                           metronome_result['beat_times'])
TimingAccuracy ==
    /\ drv_pc = "timing"
    /\ LET args == [notes |-> results["segment_result"].notes,
                    beat_times |-> results["metronome_result"].beat_times]
           timing_result == calculate_timing_accuracy(args.notes, args.beat_times)
       IN /\ invoked' = Append(invoked, [fn |-> "calculate_timing_accuracy", args |-> args])
          /\ results' = [results EXCEPT !["timing_result"] = timing_result]
          /\ drv_pc' = after_timing(timing_result)
          /\ sent' = IF timing_result.success
                     THEN Append(sent, [kind |-> "text", about |-> "calculate_timing_accuracy"])
                     ELSE sent
    /\ UNCHANGED <<driver, exception>>
    /\ UNCHANGED not_drv_vars

\* viz_result = visualize_pitch_and_notes(segment_result['df'], <notes>,
\*                                        metronome_result['beat_times'], filepath)
VisualizePitchAndNotes(body) ==
    /\ drv_pc = "viz"
    /\ CallStage("visualize_pitch_and_notes", "viz_result",
                 [df |-> results["segment_result"].df,
                  notes_df |-> notes_for_plot(results["timing_result"],
                                              results["segment_result"]),
                  beat_times |-> results["metronome_result"].beat_times,
                  filepath |-> "voice.ogg"], body,
                 after_visualization(driver, [success |-> TRUE]),
                 after_visualization(driver, [success |-> FALSE]),
                 photo_reply("visualize_pitch_and_notes"),
                 IF driver = "bot" THEN error_reply("visualize_pitch_and_notes") ELSE <<>>)

\* video_result = generate_video_report(segment_result['df'],
\*     segment_result['notes'], metronome_result['beat_times'], filepath, video_output)
GenerateVideoReport(body) ==
    /\ drv_pc = "video"
    /\ CallStage("generate_video_report", "video_result",
                 [df |-> results["segment_result"].df,
                  notes_df |-> results["segment_result"].notes,
                  beat_times |-> results["metronome_result"].beat_times,
                  audio_path |-> "voice.ogg", output_path |-> "voice_report.mp4"], body,
                 "upload", return_on_failure("upload"),
                 <<>>, error_reply("generate_video_report"))

\* The upload in its own try/except: the video, or the note that the upload
\* failed.
UploadVideo(ok) ==
    /\ drv_pc = "upload"
    /\ sent' = Append(sent, [kind |-> IF ok THEN "video" ELSE "upload failed",
                             about |-> "generate_video_report"])
    /\ drv_pc' = "end"
    /\ UNCHANGED <<driver, results, invoked, exception>>
    /\ UNCHANGED not_drv_vars

\* One of the driver's own awaits (update.message.reply_text, reply_photo)
\* raises, e.g. telegram.error.NetworkError: the exception leaves the
\* pipeline.
ReplyRaises ==
    /\ drv_pc \in Range(Positions) \cup {"upload"}
    /\ drv_pc' = "raised"
    /\ exception' = [exc |-> "NetworkError", at |-> "reply"]
    /\ UNCHANGED <<driver, results, invoked, sent>>
    /\ UNCHANGED not_drv_vars

\* Beat sequences and note events of the driver's runs (ms).
DriverBeatTimes == {[k \in 1..n |-> 500 * k] : n \in 0..MaxDriverBeats}
NoteEvent(t) == [start_time |-> t, end_time |-> t + 200]
DriverNotes ==
    UNION {[1..n -> {NoteEvent(480), NoteEvent(800)}] : n \in 0..MaxDriverNotes}

NextDriver ==
    \/ \E d \in {"analysis", "bot"} : HandleVoice(d)
    \/ \E b \in Bodies({[y |-> "waveform", sr |-> sr]}) : LoadAudio(b)
    \/ \E b \in Bodies({[beat_times |-> bt, num_beats |-> Len(bt)] : bt \in DriverBeatTimes}) :
           DetectMetronome(b)
    \/ \E b \in Bodies({[plot_path |-> "voice_metronome.png"]}) : VisualizeMetronome(b)
    \/ \E b \in Bodies({[df |-> "pitch df"]}) : ExtractPitch(b)
    \/ \E b \in Bodies({[df |-> "note df"]}) : IdentifyNotes(b)
    \/ \E b \in Bodies({[df |-> "segment df", notes |-> ns, num_notes |-> Len(ns)] :
                           ns \in DriverNotes}) : SegmentNotes(b)
    \/ TimingAccuracy
    \/ \E b \in Bodies({[plot_path |-> "voice_analysis.png"]}) : VisualizePitchAndNotes(b)
    \/ \E b \in Bodies({[video_path |-> "voice_report.mp4"]}) : GenerateVideoReport(b)
    \/ \E ok \in BOOLEAN : UploadVideo(ok)
    \/ ReplyRaises

InitDriver ==
    /\ driver = "none"
    /\ drv_pc = "idle"
    /\ results = [k \in ResultNames |-> [status |-> "pending"]]
    /\ invoked = <<>>
    /\ exception = [exc |-> "", at |-> ""]
    /\ sent = <<>>

-----------------------------------------------------------------------------
(* The chat front end of bot.py: the handlers main() registers, the         *)
(* ConversationHandler over the handlers of conversation.py, and bot.py's   *)
(* handle_voice as far as it touches user_data.  The Application is built   *)
(* without concurrent_updates, so it handles one update at a time, and      *)
(* within a handler group it runs only the first handler whose check_update *)
(* accepts the update.  One user in one chat.                               *)

\* ConversationHandler.END (the -1 the handlers return), a handler
\* returning None, and the absence of a conversation for the user; the
\* states of class State are "INSTRUMENT", "PIECE_NAME", "WAITING_AUDIO".
END == "END"
None == "None"
NoConversation == "none"

\* 'ویولن', and the default 'نامشخص' of the lookups of instrument and piece_name.
violin == "violin"
unknown == "unknown"

\* The texts a user types as the piece name.
PieceNames == {"Etude", "Sonata"}

\* The updates: commands, presses of inline buttons (callback_data), plain
\* text, voice, audio and video messages, and a photo for every other message.
Commands == {"start", "help", "cancel"}
CallbackData == {"new_practice", "help", "violin", "custom_instrument", "cancel"}
Updates ==
    {[kind |-> "command", data |-> c] : c \in Commands}
        \cup {[kind |-> "callback_query", data |-> d] : d \in CallbackData}
        \cup {[kind |-> "text", data |-> p] : p \in PieceNames}
        \cup {[kind |-> k, data |-> ""] : k \in {"voice", "audio", "video", "photo"}}

is_message(update) == update.kind # "callback_query"

\* dict: d[k] = v, d.pop(k), d.clear(), and the keys of d.
dict_set(d, k, v) == [x \in (DOMAIN d) \cup {k} |-> IF x = k THEN v ELSE d[x]]
dict_pop(d, k) == [x \in (DOMAIN d) \ {k} |-> d[x]]
dict_clear == [x \in {} |-> ""]
keys(d) == DOMAIN d

\* d.get(k, default) for the keys that hold a string.
get(d, k, default) == IF k \in keys(d) THEN d[k] ELSE default

\* analysis_context = context.user_data.get('analysis_context', {}), with
\* the lookups .get('instrument', 'نامشخص') and .get('piece_name', 'نامشخص')
\* applied: the {} default gives both defaults.
analysis_context_of(d) ==
    IF "analysis_context" \in keys(d) THEN d["analysis_context"]
    ELSE [instrument |-> unknown, piece_name |-> unknown]

\* No analysis ran, nothing was stored.
Nothing == [instrument |-> "-", piece_name |-> "-"]

\* The entry_points of conv_handler: CommandHandler('start', start_command)
\* and CallbackQueryHandler(button_callback, pattern='^new_practice$').
entry_point(update) ==
    IF update.kind = "command" /\ update.data = "start" THEN "start_command"
    ELSE IF update.kind = "callback_query" /\ update.data = "new_practice"
    THEN "button_callback"
    ELSE None

\* The states of conv_handler: the first handler of the state's list that
\* accepts the update.  filters.ALL accepts every message, commands included,
\* and no callback query.
state_handler(state, update) ==
    IF state = "INSTRUMENT" /\ update.kind = "callback_query" THEN "button_callback"
    ELSE IF state = "PIECE_NAME" /\ update.kind = "text" THEN "receive_piece_name"
    ELSE IF state = "WAITING_AUDIO" /\ update.kind \in {"voice", "audio", "video"}
    THEN "receive_audio"
    ELSE IF state = "WAITING_AUDIO" /\ is_message(update) THEN "invalid_input"
    ELSE None

\* fallbacks=[CommandHandler('cancel', cancel_command)]
fallback(update) ==
    IF update.kind = "command" /\ update.data = "cancel" THEN "cancel_command"
    ELSE None

allow_reentry == TRUE

\* ConversationHandler.check_update: the entry points when there is no
\* conversation or re-entry is allowed, then the handlers of the state, then
\* the fallbacks.
conv_handler(state, update) ==
    LET entry == IF state = NoConversation \/ allow_reentry
                 THEN entry_point(update) ELSE None
    IN IF entry # None THEN entry
       ELSE IF state = NoConversation THEN None
       ELSE IF state_handler(state, update) # None THEN state_handler(state, update)
       ELSE fallback(update)

\* Application.process_update over the handlers main() adds, all in one
\* group: conv_handler, CommandHandler('help'), CallbackQueryHandler
\* (button_callback), MessageHandler(filters.VOICE, handle_voice); the first
\* that accepts the update handles it and the others are not asked.
process_update(state, update) ==
    IF conv_handler(state, update) # None
    THEN <<[via |-> "conv_handler", callback |-> conv_handler(state, update)]>>
    ELSE IF update.kind = "command" /\ update.data = "help"
    THEN <<[via |-> "application", callback |-> "help_command"]>>
    ELSE IF update.kind = "callback_query"
    THEN <<[via |-> "application", callback |-> "button_callback"]>>
    ELSE IF update.kind = "voice"
    THEN <<[via |-> "application", callback |-> "handle_voice"]>>
    ELSE <<>>

\* The handlers that run on the update, in order.
callbacks(state, update) ==
    [k \in DOMAIN process_update(state, update) |-> process_update(state, update)[k].callback]

\* ConversationHandler._update_state: END removes the conversation, None
\* leaves the state, anything else is the new state; what a handler added to
\* the application itself returns is ignored.
update_state(state, via, new_state) ==
    IF via # "conv_handler" \/ new_state = None THEN state
    ELSE IF new_state = END THEN NoConversation
    ELSE new_state

\* button_callback: what it does to user_data and what it returns.
button_callback(data, d) ==
    IF data = "new_practice" THEN [user_data |-> d, returns |-> "INSTRUMENT"]
    ELSE IF data = "help" THEN [user_data |-> d, returns |-> END]
    ELSE IF data = "violin"
    THEN [user_data |-> dict_set(d, "instrument", violin), returns |-> "PIECE_NAME"]
    ELSE IF data = "custom_instrument" THEN [user_data |-> d, returns |-> "INSTRUMENT"]
    ELSE IF data = "cancel" THEN [user_data |-> dict_clear, returns |-> END]
    ELSE [user_data |-> d, returns |-> None]

\* receive_audio: analysis_context and in_conversation stored, END returned.
receive_audio(d) ==
    LET context == [instrument |-> get(d, "instrument", unknown),
                    piece_name |-> get(d, "piece_name", unknown)]
    IN [user_data |-> dict_set(dict_set(d, "analysis_context", context),
                               "in_conversation", TRUE),
        stored |-> context,
        returns |-> END]

\* How a run of bot.py's handle_voice ends: at its last line, at the return
\* after a failed stage, or with an exception of one of its awaits.
Outcomes == {"completed", "returned", "raised"}

\* bot.py's handle_voice: the in_conversation flag popped, the analysis run
\* with the instrument and piece name of analysis_context, and user_data
\* cleared at the last line only.
handle_voice(d, outcome) ==
    LET popped == IF "in_conversation" \in keys(d) /\ d["in_conversation"]
                  THEN dict_pop(d, "in_conversation") ELSE d
    IN [user_data |-> IF outcome = "completed" THEN dict_clear ELSE popped,
        analysis |-> analysis_context_of(popped)]

\* What all handlers record of the update they handled.
Handled(update, ran, analysis, stored) ==
    [kind |-> update.kind, data |-> update.data, state_before |-> conv_state,
     ran |-> ran, analysis |-> analysis, stored |-> stored]

\* The handler the update goes to.
GoesTo(update, via, callback) ==
    process_update(conv_state, update) = <<[via |-> via, callback |-> callback]>>

\* /start: the welcome keyboard; start_command returns None.
StartCommand ==
    LET update == [kind |-> "command", data |-> "start"]
    IN /\ GoesTo(update, "conv_handler", "start_command")
       /\ conv_state' = update_state(conv_state, "conv_handler", None)
       /\ last_update' = Handled(update, callbacks(conv_state, update), Nothing, Nothing)
       /\ UNCHANGED <<user_data, cancel_seen>>
       /\ UNCHANGED not_bot_vars

\* /help outside WAITING_AUDIO
HelpCommand ==
    LET update == [kind |-> "command", data |-> "help"]
    IN /\ GoesTo(update, "application", "help_command")
       /\ last_update' = Handled(update, callbacks(conv_state, update), Nothing, Nothing)
       /\ UNCHANGED <<conv_state, user_data, cancel_seen>>
       /\ UNCHANGED not_bot_vars

\* /cancel where the fallback is reached: user_data cleared, END.
CancelCommand ==
    LET update == [kind |-> "command", data |-> "cancel"]
    IN /\ GoesTo(update, "conv_handler", "cancel_command")
       /\ user_data' = dict_clear
       /\ conv_state' = update_state(conv_state, "conv_handler", END)
       /\ cancel_seen' = TRUE
       /\ last_update' = Handled(update, callbacks(conv_state, update), Nothing, Nothing)
       /\ UNCHANGED not_bot_vars

\* A button press, handled by button_callback inside the conversation or by
\* the CallbackQueryHandler of the application.
ButtonCallback(data) ==
    LET update == [kind |-> "callback_query", data |-> data]
        via == process_update(conv_state, update)[1].via
        r == button_callback(data, user_data)
    IN /\ callbacks(conv_state, update) = <<"button_callback">>
       /\ user_data' = r.user_data
       /\ conv_state' = update_state(conv_state, via, r.returns)
       /\ cancel_seen' = IF data = "cancel" THEN TRUE
                         ELSE IF data = "new_practice" THEN FALSE
                         ELSE cancel_seen
       /\ last_update' = Handled(update, callbacks(conv_state, update), Nothing, Nothing)
       /\ UNCHANGED not_bot_vars

\* receive_piece_name: the text stored as piece_name, WAITING_AUDIO returned.
ReceivePieceName(piece_name) ==
    LET update == [kind |-> "text", data |-> piece_name]
    IN /\ GoesTo(update, "conv_handler", "receive_piece_name")
       /\ user_data' = dict_set(user_data, "piece_name", piece_name)
       /\ conv_state' = update_state(conv_state, "conv_handler", "WAITING_AUDIO")
       /\ last_update' = Handled(update, callbacks(conv_state, update), Nothing, Nothing)
       /\ UNCHANGED cancel_seen
       /\ UNCHANGED not_bot_vars

\* invalid_input: any other message in WAITING_AUDIO (a command too, since
\* the handlers of the state come before the fallbacks).
InvalidInput(update) ==
    /\ GoesTo(update, "conv_handler", "invalid_input")
    /\ conv_state' = update_state(conv_state, "conv_handler", "WAITING_AUDIO")
    /\ last_update' = Handled(update, callbacks(conv_state, update), Nothing, Nothing)
    /\ UNCHANGED <<user_data, cancel_seen>>
    /\ UNCHANGED not_bot_vars

\* A voice, audio or video message: the handlers process_update gives it to,
\* one after the other -- receive_audio in WAITING_AUDIO, handle_voice for a
\* voice message the conversation does not take.
ReceiveMedia(kind, outcome) ==
    LET update == [kind |-> kind, data |-> ""]
        ran == callbacks(conv_state, update)
        stores == "receive_audio" \in Range(ran)
        analyses == "handle_voice" \in Range(ran)
        after_audio == IF stores THEN receive_audio(user_data).user_data ELSE user_data
        voice == handle_voice(after_audio, outcome)
    IN /\ ran # <<>>
       /\ Range(ran) \subseteq {"receive_audio", "handle_voice"}
       /\ analyses \/ outcome = "completed"
       /\ user_data' = IF analyses THEN voice.user_data ELSE after_audio
       /\ conv_state' = IF stores
                        THEN update_state(conv_state, "conv_handler",
                                          receive_audio(user_data).returns)
                        ELSE conv_state
       /\ last_update' = Handled(update, ran,
                                 IF analyses THEN voice.analysis ELSE Nothing,
                                 IF stores THEN receive_audio(user_data).stored ELSE Nothing)
       /\ UNCHANGED cancel_seen
       /\ UNCHANGED not_bot_vars

\* An update no handler accepts.
Unhandled(update) ==
    /\ process_update(conv_state, update) = <<>>
    /\ last_update' = Handled(update, <<>>, Nothing, Nothing)
    /\ UNCHANGED <<conv_state, user_data, cancel_seen>>
    /\ UNCHANGED not_bot_vars

NextBot ==
    \/ StartCommand
    \/ HelpCommand
    \/ CancelCommand
    \/ \E data \in CallbackData : ButtonCallback(data)
    \/ \E piece_name \in PieceNames : ReceivePieceName(piece_name)
    \/ \E update \in Updates : InvalidInput(update)
    \/ \E kind \in {"voice", "audio", "video"}, outcome \in Outcomes :
           ReceiveMedia(kind, outcome)
    \/ \E update \in Updates : Unhandled(update)

InitBot ==
    /\ conv_state = NoConversation
    /\ user_data = dict_clear
    /\ last_update = [kind |-> "none", data |-> "", state_before |-> NoConversation,
                      ran |-> <<>>, analysis |-> Nothing, stored |-> Nothing]
    /\ cancel_seen = FALSE

-----------------------------------------------------------------------------
(* handle_voice of handlers/analysis.py: the download, the pipeline inside  *)
(* try / except Exception / finally, and user_data.  analyze_audio gets the *)
(* update, the file path and two strings, so it cannot touch user_data; it  *)
(* ends by running to its last line, by the return after a failed stage, or *)
(* by an exception of one of its awaits or of its own formatting code.      *)

\* The user_data handle_voice is called with: nothing (a voice message
\* outside a conversation), or what receive_audio of handlers/conversation.py
\* holds when it calls handle_voice.
VoiceUserData ==
    {dict_clear}
        \cup {dict_set(d, "analysis_context",
                       [instrument |-> get(d, "instrument", unknown),
                        piece_name |-> get(d, "piece_name", unknown)]) :
                 d \in {dict_clear,
                        dict_set(dict_clear, "piece_name", "Etude"),
                        dict_set(dict_set(dict_clear, "instrument", violin),
                                 "piece_name", "Etude"),
                        dict_set(dict_set(dict_clear, "instrument", violin),
                                 "piece_name", "Sonata")}}

\* The stages after whose failure analyze_audio returns.
FatalStages == {"load_audio", "detect_metronome", "extract_pitch", "identify_notes",
                "segment_notes", "generate_video_report"}

\* The exceptions raised inside analyze_audio: of the awaited replies
\* (telegram.error.NetworkError, TimedOut) and of the code between the
\* stages (KeyError, TypeError); all subclasses of Exception.
AnalysisErrors == {"NetworkError", "TimedOut", "KeyError", "TypeError"}

NoException == [exc |-> "", raised_in |-> "", propagated |-> FALSE]

\* except Exception as e
caught_by_except(e) == is_Exception(e)

\* Variant of finally_clear: the clear after the try statement instead of in
\* its finally block, so it is skipped when an exception is on its way out.
clear_after_try(d, in_flight) == IF in_flight.exc = "" THEN dict_clear ELSE d

\* finally: context.user_data.clear()
finally_clear(d, in_flight) == dict_clear

\* A voice message arrives: the context is read from user_data.
VoiceCall(d) ==
    /\ hv_pc = "idle"
    /\ hv_user_data' = d
    /\ hv_context' = analysis_context_of(d)
    /\ hv_pc' = "get_file"
    /\ UNCHANGED <<hv_outcome, hv_exception, hv_sent>>
    /\ UNCHANGED not_voice_vars

\* One of the awaits before the try statement -- bot.get_file,
\* download_to_drive, reply_text(FILE_RECEIVED) -- returns, or raises and
\* the exception leaves handle_voice before the pipeline is reached.
BeforeTry(raises) ==
    /\ hv_pc \in {"get_file", "download", "reply"}
    /\ IF raises
       THEN /\ hv_pc' = "done"
            /\ hv_exception' = [exc |-> "NetworkError", raised_in |-> hv_pc,
                                propagated |-> TRUE]
            /\ UNCHANGED hv_sent
       ELSE /\ hv_pc' = IF hv_pc = "get_file" THEN "download"
                        ELSE IF hv_pc = "download" THEN "reply"
                        ELSE "analyze_audio"
            /\ hv_sent' = IF hv_pc = "reply" THEN Append(hv_sent, "FILE_RECEIVED")
                          ELSE hv_sent
            /\ UNCHANGED hv_exception
    /\ UNCHANGED <<hv_user_data, hv_context, hv_outcome>>
    /\ UNCHANGED not_voice_vars

\* await analyze_audio(...) runs to its end.
AnalyzeCompletes ==
    /\ hv_pc = "analyze_audio"
    /\ hv_outcome' = "completed"
    /\ hv_pc' = "finally"
    /\ UNCHANGED <<hv_user_data, hv_context, hv_exception, hv_sent>>
    /\ UNCHANGED not_voice_vars

\* await analyze_audio(...) returns after the failure of a stage.
AnalyzeReturnsEarly(stage) ==
    /\ hv_pc = "analyze_audio"
    /\ hv_outcome' = stage
    /\ hv_pc' = "finally"
    /\ UNCHANGED <<hv_user_data, hv_context, hv_exception, hv_sent>>
    /\ UNCHANGED not_voice_vars

\* await analyze_audio(...) raises e: on to the except clause when it
\* catches e, else to the finally block with e on its way out.
AnalyzeRaises(e) ==
    /\ hv_pc = "analyze_audio"
    /\ hv_outcome' = "raised"
    /\ hv_exception' = [exc |-> e, raised_in |-> "analyze_audio", propagated |-> FALSE]
    /\ hv_pc' = IF caught_by_except(e) THEN "except" ELSE "finally"
    /\ UNCHANGED <<hv_user_data, hv_context, hv_sent>>
    /\ UNCHANGED not_voice_vars

\* The except clause: the error is logged and reply_text(ERROR_ANALYSIS_FAILED)
\* awaited; the exception is handled, unless the reply raises one of its own.
ExceptClause(reply_raises) ==
    /\ hv_pc = "except"
    /\ IF reply_raises
       THEN /\ hv_exception' = [exc |-> "NetworkError", raised_in |-> "except",
                                propagated |-> FALSE]
            /\ UNCHANGED hv_sent
       ELSE /\ hv_exception' = NoException
            /\ hv_sent' = Append(hv_sent, "ERROR_ANALYSIS_FAILED")
    /\ hv_pc' = "finally"
    /\ UNCHANGED <<hv_user_data, hv_context, hv_outcome>>
    /\ UNCHANGED not_voice_vars

\* The finally block, after which an exception still in flight leaves
\* handle_voice.
FinallyClause ==
    /\ hv_pc = "finally"
    /\ hv_user_data' = finally_clear(hv_user_data, hv_exception)
    /\ hv_exception' = IF hv_exception.exc = "" THEN hv_exception
                       ELSE [hv_exception EXCEPT !.propagated = TRUE]
    /\ hv_pc' = "done"
    /\ UNCHANGED <<hv_context, hv_outcome, hv_sent>>
    /\ UNCHANGED not_voice_vars

NextVoice ==
    \/ \E d \in VoiceUserData : VoiceCall(d)
    \/ \E raises \in BOOLEAN : BeforeTry(raises)
    \/ AnalyzeCompletes
    \/ \E stage \in FatalStages : AnalyzeReturnsEarly(stage)
    \/ \E e \in AnalysisErrors : AnalyzeRaises(e)
    \/ \E reply_raises \in BOOLEAN : ExceptClause(reply_raises)
    \/ FinallyClause

InitVoice ==
    /\ hv_pc = "idle"
    /\ hv_user_data = dict_clear
    /\ hv_context = Nothing
    /\ hv_outcome = "-"
    /\ hv_exception = NoException
    /\ hv_sent = <<>>

-----------------------------------------------------------------------------
(* Two analysis requests side by side: handle_voice and analyze_audio of    *)
(* handlers/analysis.py (bot.py's handle_voice names its files the same     *)
(* way) as far as they touch files.  Each request is a coroutine of its     *)
(* own; the requests switch at the awaits, so the code between two awaits   *)
(* is one step.  Time is datetime.now() in whole seconds, the resolution of *)
(* the %Y%m%d_%H%M%S timestamp.                                             *)

Requests == {1, 2}

\* The last second of the clock.
MaxClock == 2

\* os.path.join(VOICE_FOLDER, f"voice_{timestamp}.ogg"): the folder, the
\* timestamp and what follows it.
voice_path(timestamp) ==
    [folder |-> "voice_messages", timestamp |-> timestamp, suffix |-> ".ogg"]

\* filepath.replace('.ogg', suffix)
replace_ogg(filepath, suffix) == [filepath EXCEPT !.suffix = suffix]

\* temp_audiofile='temp-audio.m4a': one name in the working directory,
\* whatever the output file (0 for a name without a timestamp).
temp_audiofile(output_path) ==
    [folder |-> ".", timestamp |-> 0, suffix |-> "temp-audio.m4a"]

NoPath == [folder |-> "", timestamp |-> 0, suffix |-> ""]

\* Request r reads, or writes, the paths ps.
access(r, ps, how) == {[request |-> r, path |-> p, mode |-> how] : p \in ps}

InProgress(r) == req_pc[r] \notin {"idle", "done"}

\* A step of request r, while the other request is in progress or not.
Step(r, next) ==
    /\ req_pc' = [req_pc EXCEPT ![r] = next]
    /\ interleaved' = (interleaved \/ \E o \in Requests \ {r} : InProgress(o))

\* The voice message of request r arrives: handle_voice up to
\* await context.bot.get_file(...).
Arrive(r) ==
    /\ req_pc[r] = "idle"
    /\ Step(r, "get_file")
    /\ UNCHANGED <<req_filepath, req_loaded, clock, accesses, file_content>>
    /\ UNCHANGED not_req_vars

\* timestamp = datetime.now().strftime("%Y%m%d_%H%M%S") and the filepath,
\* up to await file.download_to_drive(filepath).
Timestamp(r) ==
    /\ req_pc[r] = "get_file"
    /\ req_filepath' = [req_filepath EXCEPT ![r] = voice_path(clock)]
    /\ Step(r, "download")
    /\ UNCHANGED <<req_loaded, clock, accesses, file_content>>
    /\ UNCHANGED not_req_vars

\* download_to_drive writes the recording of request r to its filepath.
Download(r) ==
    /\ req_pc[r] = "download"
    /\ accesses' = accesses \cup access(r, {req_filepath[r]}, "write")
    /\ file_content' = [p \in (DOMAIN file_content) \cup {req_filepath[r]} |->
                           IF p = req_filepath[r] THEN r ELSE file_content[p]]
    /\ Step(r, "load_audio")
    /\ UNCHANGED <<req_filepath, req_loaded, clock>>
    /\ UNCHANGED not_req_vars

\* After the FILE_RECEIVED reply: load_audio(filepath) reads the file, and
\* the stages up to the first plot work on what was read;
\* visualize_metronome_detection saves its plot, which is opened and sent.
\* A failed stage ends the request.
LoadAndPlotMetronome(r, ok) ==
    /\ req_pc[r] = "load_audio"
    /\ LET plot == replace_ogg(req_filepath[r], "_metronome_analysis.png")
       IN accesses' = accesses \cup access(r, {req_filepath[r]}, "read")
                          \cup (IF ok THEN access(r, {plot}, "write")
                                               \cup access(r, {plot}, "read")
                                ELSE {})
    /\ req_loaded' = [req_loaded EXCEPT ![r] = file_content[req_filepath[r]]]
    /\ Step(r, IF ok THEN "pitch" ELSE "done")
    /\ UNCHANGED <<req_filepath, clock, file_content>>
    /\ UNCHANGED not_req_vars

\* The stages from extract_pitch to visualize_pitch_and_notes, whose plot is
\* saved, opened and sent.
PlotPitch(r, ok) ==
    /\ req_pc[r] = "pitch"
    /\ LET plot == replace_ogg(req_filepath[r], "_pitch_analysis.png")
       IN accesses' = accesses \cup (IF ok THEN access(r, {plot}, "write")
                                                    \cup access(r, {plot}, "read")
                                     ELSE {})
    /\ Step(r, IF ok THEN "video" ELSE "done")
    /\ UNCHANGED <<req_filepath, req_loaded, clock, file_content>>
    /\ UNCHANGED not_req_vars

\* generate_video_report(..., filepath, video_output): the recording is read
\* again, write_videofile writes the temporary audio file and the video and
\* removes the temporary file.
GenerateVideo(r) ==
    /\ req_pc[r] = "video"
    /\ LET video_output == replace_ogg(req_filepath[r], "_report.mp4")
       IN accesses' = accesses \cup access(r, {req_filepath[r]}, "read")
                          \cup access(r, {temp_audiofile(video_output), video_output}, "write")
    /\ Step(r, "upload")
    /\ UNCHANGED <<req_filepath, req_loaded, clock, file_content>>
    /\ UNCHANGED not_req_vars

\* The video file is opened and sent.
Upload(r) ==
    /\ req_pc[r] = "upload"
    /\ accesses' = accesses
                       \cup access(r, {replace_ogg(req_filepath[r], "_report.mp4")}, "read")
    /\ Step(r, "done")
    /\ UNCHANGED <<req_filepath, req_loaded, clock, file_content>>
    /\ UNCHANGED not_req_vars

\* A second passes.
Tick ==
    /\ clock < MaxClock
    /\ clock' = clock + 1
    /\ UNCHANGED <<req_pc, req_filepath, req_loaded, accesses, file_content, interleaved>>
    /\ UNCHANGED not_req_vars

NextRequests ==
    \/ \E r \in Requests : Arrive(r)
    \/ \E r \in Requests : Timestamp(r)
    \/ \E r \in Requests : Download(r)
    \/ \E r \in Requests, ok \in BOOLEAN : LoadAndPlotMetronome(r, ok)
    \/ \E r \in Requests, ok \in BOOLEAN : PlotPitch(r, ok)
    \/ \E r \in Requests : GenerateVideo(r)
    \/ \E r \in Requests : Upload(r)
    \/ Tick

InitRequests ==
    /\ req_pc = [r \in Requests |-> "idle"]
    /\ req_filepath = [r \in Requests |-> NoPath]
    /\ req_loaded = [r \in Requests |-> 0]
    /\ clock = 1
    /\ accesses = {}
    /\ file_content = [p \in {} |-> 0]
    /\ interleaved = FALSE

-----------------------------------------------------------------------------
(* Specifications *)

Init == InitBeats /\ InitSegment /\ InitPitch /\ InitIdentify /\ InitNoteNames
            /\ InitDriver /\ InitOnsetMarks /\ InitBot
            /\ InitVoice /\ InitRequests

\* detect_metronome on its own
SpecBeats == Init /\ [][NextBeats]_vars

\* segment_notes on its own
SpecSegment == Init /\ [][NextSegment]_vars

\* extract_pitch on its own
SpecPitch == Init /\ [][NextPitch]_vars

\* identify_notes on its own
SpecIdentify == Init /\ [][NextIdentify]_vars

\* The note_name column on its own
SpecNoteNames == Init /\ [][NextNoteNames]_vars

\* The pipeline driver on its own
SpecDriver == Init /\ [][NextDriver]_vars

\* The onset markers of segment_notes on their own
SpecOnsetMarks == Init /\ [][NextOnsetMarks]_vars

\* The chat front end of bot.py on its own
SpecBot == Init /\ [][NextBot]_vars

\* handle_voice of handlers/analysis.py on its own
SpecVoice == Init /\ [][NextVoice]_vars

\* Two analysis requests side by side
SpecRequests == Init /\ [][NextRequests]_vars

\* The stages as independent requests.
Next == NextBeats \/ NextSegment \/ NextPitch \/ NextIdentify \/ NextNoteNames
            \/ NextDriver \/ NextOnsetMarks \/ NextBot
            \/ NextVoice \/ NextRequests

Spec == Init /\ [][Next]_vars

-----------------------------------------------------------------------------
(* Properties of detect_metronome *)

StrictlyIncreasing(s) == \A k \in 1..(Len(s) - 1) : s[k] < s[k + 1]

BeatsReturned == beat_pc = "done" /\ metronome_result.success

\* The filtered path was taken (3 or more candidates).
FilteredPath == BeatsReturned /\ Len(onset_times) >= min_onsets

\* The k-th smallest value of s, by counting.
KthSmallest(s, k) ==
    CHOOSE v \in Range(s) :
        /\ Cardinality({j \in DOMAIN s : s[j] < v}) < k
        /\ Cardinality({j \in DOMAIN s : s[j] <= v}) >= k

\* Twice the median of s, by order statistics.
TwiceMedian(s) ==
    IF Len(s) % 2 = 1 THEN 2 * KthSmallest(s, (Len(s) + 1) \div 2)
    ELSE KthSmallest(s, Len(s) \div 2) + KthSmallest(s, Len(s) \div 2 + 1)

\* tempo = 60 / median(diff(beat_times))
TempoIsMedianBased ==
    /\ metronome_result.tempo.num = 60 * TicksPerSecond
    /\ 2 * metronome_result.tempo.den = TwiceMedian(diff(metronome_result.beat_times))

\* C1: the beat_times detect_metronome returns are strictly increasing, on the
\* fewer-than-3-candidates path and on the filtered path (and so is the list
\* of kept beats at every point of the filter).
C1_BeatsStrictlyIncreasing ==
    /\ StrictlyIncreasing(filtered_times)
    /\ BeatsReturned => StrictlyIncreasing(metronome_result.beat_times)

\* C1 witness: the filter returned 3 or more beats after dropping a candidate.
C1_Witness ==
    /\ FilteredPath
    /\ metronome_result.num_beats >= 3
    /\ metronome_result.num_beats < Len(onset_times)

\* C2 as stated: whenever 2 or more beats are returned, the tempo is
\* 60 / median of the differences of the returned beat_times.
C2_TempoIsMedianOfAnyTwoBeats ==
    (BeatsReturned /\ metronome_result.num_beats >= 2) => TempoIsMedianBased

\* C2 amended: whenever 2 or more beats are returned from 3 or more onset
\* candidates, the tempo is 60 / median of the differences of the returned
\* beat_times; 2 beats returned from 2 candidates have tempo 0.
C2_TempoIsMedianOnFilteredPath ==
    /\ (FilteredPath /\ metronome_result.num_beats >= 2) => TempoIsMedianBased
    /\ (BeatsReturned /\ Len(onset_times) < min_onsets)
           => metronome_result.tempo = zero_tempo

\* C2 witness: 4 beats kept, with unequal intervals, and a tempo that is not
\* the histogram estimate.
C2_Witness ==
    /\ FilteredPath
    /\ metronome_result.num_beats = 4
    /\ Cardinality(Range(diff(metronome_result.beat_times))) = 3
    /\ metronome_result.tempo # tempo_of(dominant_interval)

\* C3: with fewer than 3 candidates (0, 1 or 2) detect_metronome returns
\* success with tempo 0, the candidates unchanged as beat_times and their
\* count as num_beats: the step taken after onset picking is that return.
C3_FewOnsetsReturnedAsTheyAre ==
    [][(beat_pc = "check" /\ Len(onset_times) < 3) =>
          /\ beat_pc' = "done"
          /\ metronome_result'.success
          /\ metronome_result'.tempo = zero_tempo
          /\ metronome_result'.beat_times = onset_times
          /\ metronome_result'.num_beats = Len(onset_times)]_vars

\* C3 witness: exactly 2 candidates were returned, with tempo 0.
C3_Witness ==
    /\ BeatsReturned
    /\ Len(onset_times) = 2
    /\ metronome_result.num_beats = 2
    /\ metronome_result.tempo = zero_tempo

\* C4: in the filter the first candidate is kept and the expectation E is the
\* last kept time + D; a later candidate t is kept, and E becomes t + D, when
\* |t - E| <= 0.15 * D or t > E + 0.15 * D; otherwise the kept list and E
\* stay as they are.
C4_FilterRule ==
    [][/\ (beat_pc = "filter" /\ beat_i <= Len(onset_times)) =>
            LET t == onset_times[beat_i]
                D == dominant_interval
                E == expected_next
            IN IF 20 * Abs(t - E) <= 3 * D \/ 20 * (t - E) > 3 * D
               THEN /\ filtered_times' = Append(filtered_times, t)
                    /\ expected_next' = t + D
               ELSE /\ filtered_times' = filtered_times
                    /\ expected_next' = expected_next
       /\ beat_pc' = "filter" =>
            /\ filtered_times'[1] = onset_times'[1]
            /\ expected_next' =
                   filtered_times'[Len(filtered_times')] + dominant_interval'
      ]_vars

\* C4 witness: a filter run that dropped a candidate, kept one within the
\* tolerance and kept one beyond it on the late side.
C4_Witness ==
    /\ FilteredPath
    /\ metronome_result.num_beats < Len(onset_times)
    /\ \E k \in DOMAIN diff(filtered_times) :
           20 * Abs(diff(filtered_times)[k] - dominant_interval) <= 3 * dominant_interval
    /\ \E k \in DOMAIN diff(filtered_times) :
           20 * (diff(filtered_times)[k] - dominant_interval) > 3 * dominant_interval

\* C23: a candidate after the first is kept exactly when it is at least
\* 0.85 * D after the last kept beat (so a dropped candidate is always too
\* early, never too late), and consecutive kept beats are at least 0.85 * D
\* apart.
C23_MinimumSpacingFilter ==
    [][/\ (beat_pc = "filter" /\ beat_i <= Len(onset_times)) =>
            LET t == onset_times[beat_i]
                last == filtered_times[Len(filtered_times)]
            IN IF 20 * (t - last) >= 17 * dominant_interval
               THEN filtered_times' = Append(filtered_times, t)
               ELSE filtered_times' = filtered_times
       /\ beat_pc' = "filter" =>
            \A k \in 1..(Len(filtered_times') - 1) :
                20 * (filtered_times'[k + 1] - filtered_times'[k]) >= 17 * dominant_interval'
      ]_vars

\* C23 witness: a filter run of 4 candidates that dropped one less than
\* 0.85 * D after a kept beat and kept one more than 1.15 * D after.
C23_Witness ==
    /\ FilteredPath
    /\ metronome_result.num_beats = 3
    /\ Len(onset_times) = 4
    /\ \E j \in DOMAIN onset_times :
           /\ onset_times[j] \notin Range(filtered_times)
           /\ \E k \in DOMAIN filtered_times :
                  /\ onset_times[j] > filtered_times[k]
                  /\ 20 * (onset_times[j] - filtered_times[k]) < 17 * dominant_interval
    /\ \E k \in DOMAIN diff(filtered_times) :
           20 * diff(filtered_times)[k] > 23 * dominant_interval

------------------------------------------------------------------------\* The dominant interval lies between the smallest and the largest interval
\* of consecutive candidates.
DominantBetweenIntervals ==
    LET intervals == diff(onset_times)
    IN /\ SetMin(Range(intervals)) <= dominant_interval
       /\ dominant_interval <= SetMax(Range(intervals))

\* C24: with 3 or more strictly increasing candidates and a dominant interval
\* between the smallest and the largest candidate interval, the filter leaves
\* the loop with 2 or more beats, and the returned tempo is the positive
\* 60 / median of the kept intervals (the recalculation of lines 114-117 is
\* always taken).
C24_FilterKeepsTwoBeats ==
    /\ (/\ beat_pc = "filter"
        /\ beat_i > Len(onset_times)
        /\ StrictlyIncreasing(onset_times)
        /\ DominantBetweenIntervals) => Len(filtered_times) >= 2
    /\ (/\ FilteredPath
        /\ StrictlyIncreasing(onset_times)
        /\ DominantBetweenIntervals)
           => /\ metronome_result.num_beats >= 2
              /\ TempoIsMedianBased
              /\ metronome_result.tempo.num > 0
              /\ metronome_result.tempo.den > 0

\* C24 witness: the candidate after the first was dropped, the second beat
\* was kept by the late branch, and the returned tempo differs from the
\* histogram estimate.
C24_Witness ==
    /\ FilteredPath
    /\ DominantBetweenIntervals
    /\ metronome_result.beat_times[2] # onset_times[2]
    /\ 20 * (metronome_result.beat_times[2] - onset_times[1]) > 23 * dominant_interval
    /\ metronome_result.tempo # tempo_of(dominant_interval)

-----
(* Properties of segment_notes *)

SegmentsReturned == seg_pc = "done" /\ segment_result.success

\* The note-start columns are in the DataFrame.
Marked == seg_pc = "segment" \/ SegmentsReturned

\* The frame whose time is t (-1 when there is none).
FrameAt(t) ==
    IF \E i \in DOMAIN df : df[i].time_s = t
    THEN CHOOSE i \in DOMAIN df : df[i].time_s = t
    ELSE -1

\* The first and the last frame of the run of the k-th returned NoteEvent.
EventFirst(k) == FrameAt(segment_result.notes[k].start_time)
EventLast(k) == FrameAt(segment_result.notes[k].end_time)

Events == DOMAIN segment_result.notes

\* The note names, and the rounded pitches, of the frames of the k-th event.
RunNames(k) == [j \in 1..(EventLast(k) - EventFirst(k) + 1) |->
                   df[EventFirst(k) + j - 1].note_name]
RunMidis(k) == [j \in 1..(EventLast(k) - EventFirst(k) + 1) |->
                   df[EventFirst(k) + j - 1].midi_rounded]

\* C5: the frame runs of the returned NoteEvents, in output order, are
\* exactly the frames 0..n-1: the first run starts at frame 0, each run is
\* non-empty and starts right after the previous one ends, the last run ends
\* at frame n-1; an empty input yields no event.
C5_EventsCoverFrames ==
    SegmentsReturned =>
        LET K == Len(segment_result.notes)
        IN /\ len(df) = 0 => K = 0
           /\ len(df) > 0 =>
                /\ K >= 1
                /\ EventFirst(1) = 0
                /\ EventLast(K) = len(df) - 1
                /\ \A k \in 1..K : EventFirst(k) <= EventLast(k)
                /\ \A k \in 1..(K - 1) : EventFirst(k + 1) = EventLast(k) + 1

\* C5 witness: 4 frames split into 3 events, one of them of 2 frames.
C5_Witness ==
    /\ SegmentsReturned
    /\ len(df) = 4
    /\ Len(segment_result.notes) = 3
    /\ \E k \in Events : EventLast(k) = EventFirst(k) + 1

\* C6: a non-empty input yields at least one NoteEvent; the first event
\* starts at the time of frame 0 and the last event ends at the time of the
\* last frame.
C6_FirstAndFinalRunEmitted ==
    (SegmentsReturned /\ len(df) > 0) =>
        /\ segment_result.num_notes >= 1
        /\ segment_result.notes[1].start_time = df[0].time_s
        /\ segment_result.notes[segment_result.num_notes].end_time
               = df[len(df) - 1].time_s

\* C6 witness: frame 0 is no onset, and the final run is the single last
\* frame.
C6_Witness ==
    /\ SegmentsReturned
    /\ len(df) >= 3
    /\ ~df[0].is_onset
    /\ df[len(df) - 1].is_note_start
    /\ segment_result.notes[segment_result.num_notes].duration = 0

\* C7: frame i is flagged as a pitch change exactly when i >= 1 and its
\* rounded pitch differs from the previous frame's by more than 1.
C7_PitchChangeBoundary ==
    Marked =>
        \A i \in DOMAIN df :
            df[i].is_pitch_change <=>
                (i >= 1 /\ Abs(df[i].midi_rounded - df[i - 1].midi_rounded) > 1)

\* C7 witness: one frame a semitone from its predecessor (not flagged), one
\* two semitones from it (flagged).
C7_Witness ==
    /\ SegmentsReturned
    /\ \E i \in DOMAIN df :
           /\ i >= 1
           /\ Abs(df[i].midi_rounded - df[i - 1].midi_rounded) = 1
           /\ ~df[i].is_pitch_change
    /\ \E i \in DOMAIN df :
           /\ i >= 1
           /\ Abs(df[i].midi_rounded - df[i - 1].midi_rounded) = 2
           /\ df[i].is_pitch_change

\* C8: the frames i >= 1 at which a NoteEvent starts are exactly the frames
\* that are an onset frame or a pitch-change boundary.
C8_NoteStartIsOnsetOrPitchChange ==
    SegmentsReturned =>
        {EventFirst(k) : k \in Events} \ {0} =
            {i \in DOMAIN df : i >= 1 /\ (df[i].is_onset \/ df[i].is_pitch_change)}

\* C8 witness: an event starts at a frame that is only an onset, another at
\* a frame that is only a pitch change, and a frame that is neither starts none.
C8_Witness ==
    /\ SegmentsReturned
    /\ \E k \in Events :
           /\ EventFirst(k) >= 1
           /\ df[EventFirst(k)].is_onset
           /\ ~df[EventFirst(k)].is_pitch_change
    /\ \E k \in Events :
           /\ EventFirst(k) >= 1
           /\ ~df[EventFirst(k)].is_onset
           /\ df[EventFirst(k)].is_pitch_change
    /\ \E i \in DOMAIN df :
           /\ i >= 1
           /\ ~df[i].is_onset
           /\ ~df[i].is_pitch_change
           /\ \A k \in Events : EventFirst(k) # i

\* v is a most frequent value of s.
MostFrequent(s, v) ==
    /\ v \in Range(s)
    /\ \A w \in Range(s) : count(s, w) <= count(s, v)

FirstIndex(s, v) == SetMin({k \in DOMAIN s : s[k] = v})

\* C9 as stated: the note_name of each NoteEvent is a most frequent name of
\* its run, and among tied names the one that occurs first in the run.
C9_ModeTieFirstEncountered ==
    SegmentsReturned =>
        \A k \in Events :
            LET s == RunNames(k)
                v == segment_result.notes[k].note_name
            IN /\ MostFrequent(s, v)
               /\ \A w \in Range(s) :
                      (w # v /\ MostFrequent(s, w)) => FirstIndex(s, v) < FirstIndex(s, w)

\* C9 amended: the note_name of each NoteEvent is a most frequent name of
\* its run, and among tied names the one that sorts first as a string.
C9_ModeTieSmallestString ==
    SegmentsReturned =>
        \A k \in Events :
            LET s == RunNames(k)
                v == segment_result.notes[k].note_name
            IN /\ MostFrequent(s, v)
               /\ \A w \in Range(s) :
                      (w # v /\ MostFrequent(s, w)) => str_less(v, w)

\* C9 witness: an event whose run has two tied names, the returned one not
\* the first of the run.
C9_Witness ==
    /\ SegmentsReturned
    /\ \E k \in Events :
           \E w \in Range(RunNames(k)) :
               /\ w # segment_result.notes[k].note_name
               /\ MostFrequent(RunNames(k), w)
               /\ RunNames(k)[1] = w

\* C10 as stated: the midi_number of each NoteEvent is the median of the
\* rounded pitches of its run.
C10_MidiNumberIsMedian ==
    SegmentsReturned =>
        \A k \in Events :
            2 * segment_result.notes[k].midi_number = TwiceMedian(RunMidis(k))

\* C10 amended: the midi_number of each NoteEvent is the median of the
\* rounded pitches of its run truncated toward zero to an integer: the
\* median when it is whole, and for a median of x.5 (an even run whose two
\* middle values differ) the whole number next to it on the side of zero.
C10_MidiNumberIsTruncatedMedian ==
    SegmentsReturned =>
        \A k \in Events :
            LET tm == TwiceMedian(RunMidis(k))
                mn == segment_result.notes[k].midi_number
            IN IF tm % 2 = 0 THEN 2 * mn = tm
               ELSE IF tm > 0 THEN 2 * mn = tm - 1
               ELSE 2 * mn = tm + 1

\* C10 witness: an event of odd length and an event of even length whose
\* median is not whole.
C10_Witness ==
    /\ SegmentsReturned
    /\ \E k \in Events : Len(RunMidis(k)) = 1
    /\ \E k \in Events :
           /\ Len(RunMidis(k)) % 2 = 0
           /\ TwiceMedian(RunMidis(k)) % 2 = 1

\* C25: within the run of each NoteEvent the rounded pitches of consecutive
\* frames differ by at most 1, and the event's midi_number is the rounded
\* pitch of some frame of the run.
C25_RunPitchesAdjacent ==
    SegmentsReturned =>
        \A k \in Events :
            /\ \A j \in 1..(Len(RunMidis(k)) - 1) :
                   Abs(RunMidis(k)[j + 1] - RunMidis(k)[j]) <= 1
            /\ segment_result.notes[k].midi_number \in Range(RunMidis(k))

\* C25 witness: a run of even length over two adjacent pitches whose median
\* is not whole, beginning at a pitch change of more than 1 semitone.
C25_Witness ==
    /\ SegmentsReturned
    /\ \E k \in Events :
           /\ EventFirst(k) >= 1
           /\ df[EventFirst(k)].is_pitch_change
           /\ Len(RunMidis(k)) = 2
           /\ Abs(RunMidis(k)[2] - RunMidis(k)[1]) = 1
           /\ segment_result.notes[k].midi_number = SetMin(Range(RunMidis(k)))

\* The frames at which a run starts: frame 0 and every later note start.
RunStarts == {i \in DOMAIN df : i = 0 \/ df[i].is_note_start}

\* The first frame of the k-th run, by counting the run starts before it, and
\* its last frame: the frame before the next run start, or the last frame.
RunFirst(k) == CHOOSE b \in RunStarts : Cardinality({x \in RunStarts : x < b}) = k - 1
RunLast(k) == IF k = Cardinality(RunStarts) THEN len(df) - 1 ELSE RunFirst(k + 1) - 1

\* C11: each NoteEvent has the time of the first frame of its run as
\* start_time, the time of the last frame of its run as end_time, and
\* duration = end_time - start_time >= 0, which is 0 exactly for a run of one
\* frame; each event starts strictly after the previous event ends.
C11_EventTimes ==
    SegmentsReturned =>
        /\ Len(segment_result.notes) = Cardinality(RunStarts)
        /\ \A k \in Events :
               LET e == segment_result.notes[k]
               IN /\ e.start_time = df[RunFirst(k)].time_s
                  /\ e.end_time = df[RunLast(k)].time_s
                  /\ e.duration = e.end_time - e.start_time
                  /\ e.duration >= 0
                  /\ (e.duration = 0) <=> (RunFirst(k) = RunLast(k))
        /\ \A k \in Events :
               k > 1 => segment_result.notes[k].start_time
                            > segment_result.notes[k - 1].end_time

\* C11 witness: a run of one frame (duration 0) followed by a run of several
\* frames.
C11_Witness ==
    /\ SegmentsReturned
    /\ Len(segment_result.notes) >= 2
    /\ segment_result.notes[1].duration = 0
    /\ segment_result.notes[2].duration > 0

\* The frames of the returned DataFrame that are marked is_onset.
MarkedFrames == {i \in DOMAIN mark_result.df : mark_result.df[i].is_onset}

\* The distance of frame i to the k-th onset.
OnsetDistance(i, k) == Abs(mark_result.df[i].time_s - mark_result.onset_times[k])

\* The frame nearest to the k-th onset, the earlier one of two equally near.
NearestFrame(k) ==
    LET least == SetMin({OnsetDistance(i, k) : i \in DOMAIN mark_result.df})
    IN SetMin({i \in DOMAIN mark_result.df : OnsetDistance(i, k) = least})

\* C22: the frames marked is_onset are, for each onset, the one frame nearest
\* to it (the earlier of two equally near); so they are at most num_onsets;
\* an onset before the first frame marks the first frame and one after the
\* last frame the last.  In the loop, the frames marked so far are those of
\* the onsets gone through.
C22_OnsetMarksNearestFrame ==
    /\ mark_pc = "loop" =>
           {i \in DOMAIN mark_df : mark_df[i].is_onset}
               = {closest_idx(mark_df, mark_onset_times[k]) : k \in 1..(mark_k - 1)}
    /\ mark_pc = "done" =>
           /\ MarkedFrames = {NearestFrame(k) : k \in DOMAIN mark_result.onset_times}
           /\ Cardinality(MarkedFrames) <= mark_result.num_onsets
           /\ \A k \in DOMAIN mark_result.onset_times :
                  LET last == len(mark_result.df) - 1
                      t == mark_result.onset_times[k]
                  IN /\ t < mark_result.df[0].time_s => mark_result.df[0].is_onset
                     /\ t > mark_result.df[last].time_s => mark_result.df[last].is_onset

\* C22 witness: three onsets and two marked frames: one onset halfway
\* between the first two frames marks the first, two onsets after the last
\* frame both mark the last.
C22_Witness ==
    /\ mark_pc = "done"
    /\ mark_result.num_onsets = 3
    /\ Cardinality(MarkedFrames) = 2
    /\ OnsetDistance(0, 1) = OnsetDistance(1, 1)
    /\ mark_result.df[0].is_onset
    /\ ~mark_result.df[1].is_onset
    /\ mark_result.onset_times[2] > mark_result.df[len(mark_result.df) - 1].time_s
    /\ NearestFrame(2) = NearestFrame(3)

\* The same with an onset before the first frame of the DataFrame.
C22_OnsetBeforeFirstFrame ==
    /\ mark_pc = "done"
    /\ mark_result.num_onsets >= 1
    /\ mark_result.onset_times[1] < mark_result.df[0].time_s
    /\ mark_result.df[0].is_onset

-----------------------------------------------------------------------------
(* Properties of extract_pitch *)

PitchReturned == pitch_pc = "done" /\ pitch_result.success

\* Frame i of the returned DataFrame is undefined in the raw series and has a
\* defined raw frame on each side.
InnerGap(i) ==
    /\ isnan(pitch_result.df[i].f0_raw)
    /\ \E l \in DOMAIN pitch_result.df : l < i /\ ~isnan(pitch_result.df[l].f0_raw)
    /\ \E r \in DOMAIN pitch_result.df : r > i /\ ~isnan(pitch_result.df[r].f0_raw)

\* The nearest defined raw frame left of i, and right of i.
LeftNeighbour(i) ==
    SetMax({l \in DOMAIN pitch_result.df : l < i /\ ~isnan(pitch_result.df[l].f0_raw)})
RightNeighbour(i) ==
    SetMin({r \in DOMAIN pitch_result.df : r > i /\ ~isnan(pitch_result.df[r].f0_raw)})

\* C15: the gap-filled series has no undefined value when some raw frame is
\* defined, and is entirely undefined when every raw frame is undefined.
C15_GapFilledSeriesDefined ==
    PitchReturned =>
        LET d == pitch_result.df
        IN /\ (\E i \in DOMAIN d : d[i].f0_raw.den # 0)
                  => \A i \in DOMAIN d : d[i].f0.den # 0
           /\ (\A i \in DOMAIN d : d[i].f0_raw.den = 0)
                  => \A i \in DOMAIN d : d[i].f0.den = 0

\* C15 witness: the recording starts and ends undefined, with defined frames
\* in between.
C15_Witness ==
    /\ PitchReturned
    /\ pitch_result.num_frames >= 3
    /\ isnan(pitch_result.df[0].f0_raw)
    /\ isnan(pitch_result.df[pitch_result.num_frames - 1].f0_raw)
    /\ pitch_result.nan_count < pitch_result.num_frames

FirstDefined ==
    SetMin({i \in DOMAIN pitch_result.df : ~isnan(pitch_result.df[i].f0_raw)})
LastDefined ==
    SetMax({i \in DOMAIN pitch_result.df : ~isnan(pitch_result.df[i].f0_raw)})

\* C26: the undefined frames before the first defined frame get the value of
\* the first defined frame, and those after the last defined frame the value
\* of the last defined frame.
C26_EdgeRunsHoldNearestValue ==
    (PitchReturned /\ pitch_result.nan_count < pitch_result.num_frames) =>
        \A i \in DOMAIN pitch_result.df :
            /\ i < FirstDefined => pitch_result.df[i].f0 = pitch_result.df[FirstDefined].f0_raw
            /\ i > LastDefined => pitch_result.df[i].f0 = pitch_result.df[LastDefined].f0_raw

\* C26 witness: an undefined first frame and an undefined last frame around
\* two defined frames of different frequency.
C26_Witness ==
    /\ PitchReturned
    /\ pitch_result.num_frames = 4
    /\ pitch_result.nan_count = 2
    /\ FirstDefined = 1
    /\ LastDefined = 2
    /\ pitch_result.df[1].f0_raw # pitch_result.df[2].f0_raw
    /\ pitch_result.df[0].f0 = pitch_result.df[1].f0_raw
    /\ pitch_result.df[3].f0 = pitch_result.df[2].f0_raw

-----------------------------------------------------------------------------
(* Properties of identify_notes *)

IdentifyReturned == id_pc = "done" /\ identify_result.success

\* Frame i has a midi_float exactly halfway between two integers.
Halfway(i) == identify_result.df[i].midi_float.cents % 100 = 50

\* C12: midi_rounded is midi_float rounded to a nearest integer and cents_off
\* = (midi_float - midi_rounded) * 100 lies in the half-open range [-50, 50),
\* also for a midi_float exactly halfway between two integers.
C12_CentsOffInHalfOpenRange ==
    IdentifyReturned =>
        \A i \in DOMAIN identify_result.df :
            LET row == identify_result.df[i]
            IN /\ Abs(row.midi_float.cents - 100 * row.midi_rounded) <= 50
               /\ row.cents_off = row.midi_float.cents - 100 * row.midi_rounded
               /\ -50 <= row.cents_off
               /\ row.cents_off < 50

\* C13: every frame whose midi_float is exactly halfway between two integers
\* has |cents_off| = 50, and the sign of cents_off is the same for all of
\* them.
C13_HalfwaySameSign ==
    IdentifyReturned =>
        \A i \in DOMAIN identify_result.df : \A j \in DOMAIN identify_result.df :
            (Halfway(i) /\ Halfway(j)) =>
                /\ Abs(identify_result.df[i].cents_off) = 50
                /\ identify_result.df[i].cents_off = identify_result.df[j].cents_off

\* C17: when a frame's frequency is zero, negative or undefined,
\* identify_notes returns success=False with an error; a success result has
\* a finite midi_float in every frame.
C17_BadFrequencyFails ==
    id_pc = "done" =>
        /\ (\E i \in DOMAIN id_df : id_df[i].f0.kind # "pos")
               => /\ identify_result.success = FALSE
                  /\ "error" \in DOMAIN identify_result
                  /\ "df" \notin DOMAIN identify_result
        /\ identify_result.success
               => \A i \in DOMAIN identify_result.df :
                      /\ identify_result.df[i].f0.kind = "pos"
                      /\ identify_result.df[i].midi_float.kind = "finite"

\* C17 witness: a frame of 0 Hz next to a good frame, and the failure result.
C17_Witness ==
    /\ id_pc = "done"
    /\ len(id_df) = 2
    /\ id_df[0].f0.kind = "pos"
    /\ id_df[1].f0.kind = "zero"
    /\ ~identify_result.success

-----------------------------------------------------------------------------
(* Properties of the note_name column *)

\* The semitone of a letter of the chromatic scale above C.
LetterSemitone(ch) ==
    CASE ch = 67 -> 0
      [] ch = 68 -> 2
      [] ch = 69 -> 4
      [] ch = 70 -> 5
      [] ch = 71 -> 7
      [] ch = 65 -> 9
      [] ch = 66 -> 11

\* The string has a sharp sign after its letter.
Sharp(s) == Len(s) > 1 /\ s[2] = 35

\* The chromatic index a note name reads as.
ParsedIndex(s) == LetterSemitone(s[1]) + (IF Sharp(s) THEN 1 ELSE 0)

RECURSIVE DecimalValue(_)
DecimalValue(t) ==
    IF t = <<>> THEN 0
    ELSE 10 * DecimalValue(SubSeq(t, 1, Len(t) - 1)) + (t[Len(t)] - 48)

\* The octave number a note name reads as.
ParsedOctave(s) ==
    LET t == SubSeq(s, IF Sharp(s) THEN 3 ELSE 2, Len(s))
    IN IF t[1] = 45 THEN -DecimalValue(Tail(t)) ELSE DecimalValue(t)

\* C14: the note name of midi_rounded m is the chromatic-table entry at index
\* m mod 12 followed by the octave m div 12 - 1 (floor division), so that
\* 12 * (octave + 1) + index = m; 69 is A4, 60 is C4, 0 is C-1; different m
\* have different names.
C14_NoteNameOfMidi ==
    name_pc = "done" =>
        /\ \A k \in DOMAIN midi_column :
               LET m == midi_column[k]
                   s == name_column[k]
               IN /\ ParsedIndex(s) = m % 12
                  /\ ParsedOctave(s) = (m \div 12) - 1
                  /\ 12 * (ParsedOctave(s) + 1) + ParsedIndex(s) = m
                  /\ \A c \in Range(SubSeq(s, 2, Len(s))) : c \in {35, 45} \cup 48..57
                  /\ (m = 69 => s = <<65, 52>>)
                  /\ (m = 60 => s = <<67, 52>>)
                  /\ (m = 0 => s = <<67, 45, 49>>)
        /\ (midi_column[1] # midi_column[2]) => (name_column[1] # name_column[2])

\* C14 witness: a pitch below zero and the concert pitch, named B-2 and A4.
C14_Witness ==
    /\ name_pc = "done"
    /\ midi_column = <<-1, 69>>
    /\ name_column = <<(<<66, 45, 50>>), (<<65, 52>>)>>

-----------------------------------------------------------------------------
(* Properties of the pipeline driver *)

\* The five stages of the pipeline and the local variable each one's result
\* is bound to.
Stages == <<"load_audio", "detect_metronome", "extract_pitch", "identify_notes",
            "segment_notes">>

ResultOf(fn) ==
    CASE fn = "load_audio" -> "result"
      [] fn = "detect_metronome" -> "metronome_result"
      [] fn = "extract_pitch" -> "pitch_result"
      [] fn = "identify_notes" -> "note_result"
      [] fn = "segment_notes" -> "segment_result"

\* The fields of a stage's success result that the driver reads.
PayloadOf(fn) ==
    CASE fn = "load_audio" -> {"y", "sr"}
      [] fn = "detect_metronome" -> {"beat_times", "num_beats"}
      [] fn = "extract_pitch" -> {"df"}
      [] fn = "identify_notes" -> {"df"}
      [] fn = "segment_notes" -> {"df", "notes", "num_notes"}

\* The calls of the whole pipeline in the order of the program text.
CallOrder == <<"load_audio", "detect_metronome", "visualize_metronome_detection",
               "extract_pitch", "identify_notes", "segment_notes",
               "calculate_timing_accuracy", "visualize_pitch_and_notes",
               "generate_video_report">>

Invoked(fn) == \E i \in DOMAIN invoked : invoked[i].fn = fn
Returned(key) == "success" \in DOMAIN results[key]
Failed(key) == Returned(key) /\ ~results[key].success

\* C18: every call of a stage returns a result, which is success=True with
\* the payload or success=False with an error; no exception of a stage
\* reaches the driver.
C18_StagesReturnTaggedResults ==
    /\ exception.at \notin Range(Stages)
    /\ \A i \in DOMAIN invoked :
           invoked[i].fn \in Range(Stages) =>
               LET r == results[ResultOf(invoked[i].fn)]
               IN /\ "success" \in DOMAIN r
                  /\ r.success \in BOOLEAN
                  /\ r.success => /\ PayloadOf(invoked[i].fn) \subseteq DOMAIN r
                                  /\ "error" \notin DOMAIN r
                  /\ ~r.success => /\ DOMAIN r = {"success", "error"}
                                   /\ r.error \in InternalErrors

\* C18 witness: segment_notes ran out of memory and returned the failure.
C18_Witness ==
    /\ Invoked("segment_notes")
    /\ Failed("segment_result")
    /\ results["segment_result"].error = "MemoryError"
    /\ drv_pc = "end"

\* C19: the calls are made in the fixed order; a call is made only when
\* every stage called before it returned success; a stage that failed is the
\* last call of the run, and the run is over.
C19_StagesInOrderStopAtFirstFailure ==
    /\ Len(invoked) <= Len(CallOrder)
    /\ \A i \in DOMAIN invoked : invoked[i].fn = CallOrder[i]
    /\ \A i \in DOMAIN invoked : \A j \in 1..(i - 1) :
           invoked[j].fn \in Range(Stages) =>
               /\ Returned(ResultOf(invoked[j].fn))
               /\ results[ResultOf(invoked[j].fn)].success
    /\ \A i \in DOMAIN invoked :
           (invoked[i].fn \in Range(Stages) /\ Failed(ResultOf(invoked[i].fn))) =>
               /\ i = Len(invoked)
               /\ drv_pc = "end"

\* C19 witness: bot.py's run ends with the failure of identify_notes, the
\* fifth call.
C19_Witness ==
    /\ driver = "bot"
    /\ Failed("note_result")
    /\ Len(invoked) = 5
    /\ invoked[5].fn = "identify_notes"
    /\ drv_pc = "end"

\* The arguments of the call of fn.
ArgsOf(fn) == invoked[CHOOSE i \in DOMAIN invoked : invoked[i].fn = fn].args

\* C20: with no beats the timing scorer returns success=False; the driver
\* then goes on to the plot and gives it the note events of segment_notes
\* as they are; the video gets the same events, and is made unless bot.py's
\* plot failed (or an await of the driver raised).
C20_TimingFailureIsNotFatal ==
    /\ (Invoked("calculate_timing_accuracy")
            /\ ArgsOf("calculate_timing_accuracy").beat_times = <<>>)
           => /\ Failed("timing_result")
              /\ "error" \in DOMAIN results["timing_result"]
    /\ Failed("timing_result") =>
           /\ drv_pc \in {"viz", "raised"} \/ Invoked("visualize_pitch_and_notes")
           /\ Invoked("visualize_pitch_and_notes") =>
                  /\ ArgsOf("visualize_pitch_and_notes").notes_df
                         = results["segment_result"].notes
                  /\ \A k \in DOMAIN ArgsOf("visualize_pitch_and_notes").notes_df :
                         "timing_error" \notin
                             DOMAIN ArgsOf("visualize_pitch_and_notes").notes_df[k]
           /\ (Returned("viz_result") /\ (driver = "analysis" \/ results["viz_result"].success))
                  => drv_pc \in {"video", "raised"} \/ Invoked("generate_video_report")
           /\ Invoked("generate_video_report") =>
                  ArgsOf("generate_video_report").notes_df = results["segment_result"].notes

\* C20 witness: two note events, no beat, and the run got through the plot
\* and the video to its end.
C20_Witness ==
    /\ Failed("timing_result")
    /\ Len(results["segment_result"].notes) = 2
    /\ Invoked("visualize_pitch_and_notes")
    /\ Invoked("generate_video_report")
    /\ drv_pc = "end"

-----------------------------------------------------------------------------
(* Properties of the chat front end *)

\* C27: a voice message that arrives in WAITING_AUDIO is handled by
\* receive_audio, which stores analysis_context (the instrument and the piece
\* name) and ends the conversation, and then by handle_voice, which analyses
\* that same message with that analysis_context.
C27_VoiceInWaitingAudioIsAnalysed ==
    (last_update.kind = "voice" /\ last_update.state_before = "WAITING_AUDIO")
        => /\ last_update.ran = <<"receive_audio", "handle_voice">>
           /\ conv_state = NoConversation
           /\ last_update.stored \in [instrument : {violin, unknown},
                                      piece_name : PieceNames \cup {unknown}]
           /\ last_update.analysis = last_update.stored

\* C28: a voice message sent outside any conversation is analysed with the
\* default instrument and piece name, whatever became of the analysis of an
\* earlier conversation.
C28_VoiceOutsideConversationUsesDefaults ==
    (/\ last_update.kind = "voice"
     /\ last_update.state_before = NoConversation
     /\ "handle_voice" \in Range(last_update.ran))
        => last_update.analysis = [instrument |-> unknown, piece_name |-> unknown]

\* C29: receive_audio runs only in WAITING_AUDIO, WAITING_AUDIO is entered
\* only by receive_piece_name from PIECE_NAME, PIECE_NAME is entered only by
\* the 'violin' button; and when receive_audio runs with no cancel since the
\* instrument was asked for, it finds both the instrument and the piece name
\* in user_data and uses neither default.
C29_ReceiveAudioFindsInstrumentAndPiece ==
    /\ "receive_audio" \in Range(last_update.ran)
           => last_update.state_before = "WAITING_AUDIO"
    /\ (conv_state = "WAITING_AUDIO" /\ last_update.state_before # "WAITING_AUDIO")
           => /\ last_update.state_before = "PIECE_NAME"
              /\ last_update.ran = <<"receive_piece_name">>
    /\ (conv_state = "PIECE_NAME" /\ last_update.state_before # "PIECE_NAME")
           => /\ last_update.ran = <<"button_callback">>
              /\ last_update.data = "violin"
    /\ ("receive_audio" \in Range(last_update.ran) /\ ~cancel_seen)
           => /\ last_update.stored.instrument # unknown
              /\ last_update.stored.piece_name # unknown

-----------------------------------------------------------------------------
(* Properties of handle_voice of handlers/analysis.py *)

\* handle_voice is over, and had reached the pipeline.
VoiceDoneAfterPipeline == hv_pc = "done" /\ hv_outcome # "-"

\* C30: every run of handle_voice that reached analyze_audio ends with
\* user_data empty, whether analyze_audio completed, returned after a failed
\* stage or raised; and no exception raised inside analyze_audio leaves
\* handle_voice.
C30_VoiceEndsWithUserDataCleared ==
    /\ VoiceDoneAfterPipeline => keys(hv_user_data) = {}
    /\ (hv_pc = "done" /\ hv_exception.propagated)
           => hv_exception.raised_in # "analyze_audio"

\* C30 witness: handle_voice was called with a stored analysis_context,
\* analyze_audio raised, the except clause sent the error reply, and
\* handle_voice ended.
C30_Witness ==
    /\ VoiceDoneAfterPipeline
    /\ hv_outcome = "raised"
    /\ hv_context.instrument = violin
    /\ hv_sent = <<"FILE_RECEIVED", "ERROR_ANALYSIS_FAILED">>
    /\ hv_exception = NoException

-----------------------------------------------------------------------------
(* Properties of two analysis requests side by side *)

\* C21: two requests whose handling is interleaved share no file: no path
\* written by one request is read or written by the other, and each request
\* loads its own recording; also when both voice messages arrive within the
\* same second.
C21_RequestsShareNoFile ==
    interleaved =>
        /\ \A a \in accesses : \A b \in accesses :
               (a.request # b.request /\ a.path = b.path)
                   => (a.mode = "read" /\ b.mode = "read")
        /\ \A r \in Requests : req_loaded[r] \in {0, r}

=============================================================================
